---------------------------- MODULE Spec2Model ----------------------------
(***************************************************************************)
(* A model of the PL-Xero bridge: the token lifecycle of xeroClient.js,    *)
(* the invoice path of invoiceService.js, the payment-webhook handler of   *)
(* xero-bridge.js and the pure mapping helpers of invoiceHelpers.js.       *)
(*                                                                         *)
(* JavaScript values are tagged records; JavaScript strings that the code  *)
(* inspects character by character are sequences of one-character         *)
(* strings.  A step of a request runs from one network response to the    *)
(* next network request (Node runs a continuation to completion).         *)
(***************************************************************************)
EXTENDS Integers, Sequences, FiniteSets, TLC

VARIABLES
    memToken,    \* the token set held by the xero client (readTokenSet / setTokenSet)
    tokenFile,   \* the content of TOKEN_PATH
    tenantId,    \* xeroClient.js: let tenantId
    envTenant,   \* process.env.XERO_TENANT_ID
    plConfigured,\* PL_API_URL && PL_API_KEY
    nowSec,      \* Math.floor(Date.now() / 1000)
    issued,      \* how many credentials the identity endpoint has issued
    boot,        \* position of initFromSavedToken
    req,         \* the requests in flight, one record per slot
    pure         \* a pure function, its argument and its result

vars == <<memToken, tokenFile, tenantId, envTenant, plConfigured, nowSec,
          issued, boot, req, pure>>

serverVars == <<memToken, tokenFile, tenantId, envTenant, plConfigured, nowSec,
                issued, boot, req>>

-----------------------------------------------------------------------------
(* Bounds of the model *)

MaxRateLen == 3
MaxIssued == 2
MaxTicks == 1
MaxEvents == 2
MaxItems == 2

-----------------------------------------------------------------------------
(* JavaScript values *)

Undefined == [t |-> "undefined"]
Null == [t |-> "null"]
Bool(b) == [t |-> "boolean", b |-> b]
Str(s) == [t |-> "string", s |-> s]
NumV(n) == [t |-> "number", n |-> n]

\* Numbers: NaN, the infinities, and the finite decimals m * 10^x, kept in
\* the normal form where m is not a multiple of 10 (and 0 is m = 0, x = 0),
\* so that === on numbers is equality of records (and -0 === 0).
NaN == [k |-> "nan"]
Inf(neg) == [k |-> "inf", neg |-> neg]

RECURSIVE Norm(_, _)
Norm(m, x) ==
    IF m = 0 THEN [k |-> "fin", m |-> 0, x |-> 0]
    ELSE IF m % 10 = 0 THEN Norm(m \div 10, x + 1)
    ELSE [k |-> "fin", m |-> m, x |-> x]

FromInt(i) == Norm(i, 0)

RECURSIVE Pow10(_)
Pow10(n) == IF n <= 0 THEN 1 ELSE 10 * Pow10(n - 1)

Abs(i) == IF i < 0 THEN -i ELSE i

Digits == {"0", "1", "2", "3", "4", "5", "6", "7", "8", "9"}
DigitSeq == <<"0", "1", "2", "3", "4", "5", "6", "7", "8", "9">>
DigitVal(c) == CHOOSE d \in 0..9 : DigitSeq[d + 1] = c
DigitChar(d) == DigitSeq[d + 1]

RECURSIVE IntDigits(_)
\* the decimal digits of a natural number
IntDigits(n) ==
    IF n < 10 THEN <<DigitChar(n)>>
    ELSE Append(IntDigits(n \div 10), DigitChar(n % 10))

RECURSIVE Zeros(_)
Zeros(n) == IF n <= 0 THEN <<>> ELSE <<"0">> \o Zeros(n - 1)

\* Number.prototype.toString for the decimals of the model (no exponent form)
NumToStr(n) ==
    IF n.k = "nan" THEN <<"N", "a", "N">>
    ELSE IF n.k = "inf"
    THEN (IF n.neg THEN <<"-">> ELSE <<>>) \o <<"I", "n", "f", "i", "n", "i", "t", "y">>
    ELSE LET d == IntDigits(Abs(n.m))
             sign == IF n.m < 0 THEN <<"-">> ELSE <<>>
             kk == -n.x
         IN  IF n.x >= 0 THEN sign \o d \o Zeros(n.x)
             ELSE IF Len(d) > kk
             THEN sign \o SubSeq(d, 1, Len(d) - kk) \o <<".">>
                       \o SubSeq(d, Len(d) - kk + 1, Len(d))
             ELSE sign \o <<"0", ".">> \o Zeros(kk - Len(d)) \o d

\* the value of an expression over a const: S is {e(x) : x \in {v}}, for
\* const x = v, so that v is computed once
Const(S) == CHOOSE y \in S : TRUE

\* ToBoolean
Truthy(v) ==
    CASE v.t = "undefined" -> FALSE
      [] v.t = "null" -> FALSE
      [] v.t = "boolean" -> v.b
      [] v.t = "string" -> v.s /= <<>>
      [] v.t = "number" -> v.n /= NaN /\ v.n /= FromInt(0)
      [] OTHER -> TRUE

\* a || b
Or(a, b) == IF Truthy(a) THEN a ELSE b

\* String(v) for the primitive values
ToStr(v) ==
    CASE v.t = "undefined" -> <<"u", "n", "d", "e", "f", "i", "n", "e", "d">>
      [] v.t = "null" -> <<"n", "u", "l", "l">>
      [] v.t = "boolean" -> IF v.b THEN <<"t", "r", "u", "e">>
                                   ELSE <<"f", "a", "l", "s", "e">>
      [] v.t = "string" -> v.s
      [] v.t = "number" -> NumToStr(v.n)
      [] OTHER -> <<"[", "o", "b", "j", "e", "c", "t", "]">>

-----------------------------------------------------------------------------
(* parseFloat *)

WhiteSpace == {" "}

RECURSIVE TrimStart(_)
TrimStart(s) ==
    IF s /= <<>> /\ Head(s) \in WhiteSpace THEN TrimStart(Tail(s)) ELSE s

RECURSIVE DigitsEnd(_, _)
\* the first index from i on at which s holds no digit
DigitsEnd(s, i) ==
    IF i <= Len(s) /\ s[i] \in Digits THEN DigitsEnd(s, i + 1) ELSE i

RECURSIVE DigitsValue(_, _, _)
\* the number written by the digits s[i] .. s[j - 1]
DigitsValue(s, i, j) ==
    IF i >= j THEN 0 ELSE DigitsValue(s, i, j - 1) * 10 + DigitVal(s[j - 1])

IsPrefix(p, s) == Len(p) <= Len(s) /\ SubSeq(s, 1, Len(p)) = p

\* parseFloat of a string: leading white space is skipped and the longest
\* prefix that is a decimal literal is read; NaN when there is none.
parseFloatStr(s) ==
    LET t == TrimStart(s)
        neg == Len(t) >= 1 /\ t[1] = "-"
        i0 == IF Len(t) >= 1 /\ t[1] \in {"+", "-"} THEN 2 ELSE 1
        i1 == DigitsEnd(t, i0)
        hasDot == i1 <= Len(t) /\ t[i1] = "."
        f0 == i1 + 1
        f1 == IF hasDot THEN DigitsEnd(t, f0) ELSE f0
        nInt == i1 - i0
        nFrac == f1 - f0
        m0 == IF hasDot THEN f1 ELSE i1
        hasE == m0 <= Len(t) /\ t[m0] \in {"e", "E"}
        eSigned == hasE /\ m0 + 1 <= Len(t) /\ t[m0 + 1] \in {"+", "-"}
        e0 == IF eSigned THEN m0 + 2 ELSE m0 + 1
        e1 == IF hasE THEN DigitsEnd(t, e0) ELSE e0
        ex == IF hasE /\ e1 > e0
              THEN (IF eSigned /\ t[m0 + 1] = "-" THEN -1 ELSE 1) * DigitsValue(t, e0, e1)
              ELSE 0
        mant == DigitsValue(t, i0, i1) * Pow10(nFrac) + DigitsValue(t, f0, f1)
    IN  IF IsPrefix(<<"I", "n", "f", "i", "n", "i", "t", "y">>, SubSeq(t, i0, Len(t)))
        THEN Inf(neg)
        ELSE IF nInt + nFrac = 0 THEN NaN
        ELSE Norm((IF neg THEN -1 ELSE 1) * mant, ex - nFrac)

\* parseFloat(v): the argument is converted to a string first
parseFloat(v) == parseFloatStr(ToStr(v))

isNaN(n) == n = NaN

-----------------------------------------------------------------------------
(* invoiceHelpers.js: the tax mapper *)

OUTPUT2 == Str(<<"O", "U", "T", "P", "U", "T", "2">>)
EXEMPTOUTPUT == Str(<<"E", "X", "E", "M", "P", "T", "O", "U", "T", "P", "U", "T">>)
REDUCED == Str(<<"R", "E", "D", "U", "C", "E", "D">>)

mapVatToTaxType_dropReduced(vatRateStr) ==
    LET rate == parseFloat(Or(vatRateStr, Str(<<"0">>)))
    IN  IF isNaN(rate) THEN OUTPUT2
        ELSE IF rate = FromInt(0) THEN EXEMPTOUTPUT
        ELSE OUTPUT2

mapVatToTaxType_missingIsStandard(vatRateStr) ==
    LET rate == parseFloat(vatRateStr)
    IN  IF isNaN(rate) THEN OUTPUT2
        ELSE IF rate = FromInt(0) THEN EXEMPTOUTPUT
        ELSE IF rate = FromInt(20) THEN OUTPUT2
        ELSE IF rate = FromInt(5) THEN REDUCED
        ELSE OUTPUT2

mapVatToTaxType(vatRateStr) ==
    Const({IF isNaN(rate) THEN OUTPUT2
           ELSE IF rate = FromInt(0) THEN EXEMPTOUTPUT
           ELSE IF rate = FromInt(20) THEN OUTPUT2
           ELSE IF rate = FromInt(5) THEN REDUCED
           ELSE OUTPUT2 :
              rate \in {parseFloat(Or(vatRateStr, Str(<<"0">>)))}})

-----------------------------------------------------------------------------
(* Objects and arrays.  An object is the sequence of its <<key, value>>    *)
(* pairs in the order Object.keys lists them.                              *)

Obj(p) == [t |-> "object", p |-> p]
Arr(a) == [t |-> "array", a |-> a]
EmptyObj == Obj(<<>>)

Absent == [t |-> "absent"]

\* the sequences over S of length at most n
SeqsUpTo(S, n) == UNION {[1..k -> S] : k \in 0..n}

\* an object literal from which the absent fields are left out
MkObj(pairs) == Obj(SelectSeq(pairs, LAMBDA p : p[2] /= Absent))

HasKey(o, key) == o.t = "object" /\ \E i \in 1..Len(o.p) : o.p[i][1] = key

\* o.key, and o?.key: a key the value does not have reads as undefined
Get(o, key) ==
    IF HasKey(o, key)
    THEN o.p[CHOOSE i \in 1..Len(o.p) : o.p[i][1] = key][2]
    ELSE Undefined

\* a ?? b
Nullish(a, b) == IF a.t \in {"undefined", "null"} THEN b ELSE a

\* typeof v === "object"
TypeofObject(v) == v.t \in {"object", "array", "null"}

\* the values of an object or array in Object.keys order
Values(v) ==
    IF v.t = "object" THEN [i \in 1..Len(v.p) |-> v.p[i][2]]
    ELSE IF v.t = "array" THEN v.a
    ELSE <<>>

RECURSIVE TrimEnd(_)
TrimEnd(s) ==
    IF s /= <<>> /\ s[Len(s)] \in WhiteSpace
    THEN TrimEnd(SubSeq(s, 1, Len(s) - 1))
    ELSE s

\* String.prototype.trim
Trim(s) == TrimEnd(TrimStart(s))

-----------------------------------------------------------------------------
(* invoiceHelpers.js: the line-item builder *)

\* CONFIG.XERO_SALES_ACCOUNT || process.env.XERO_SALES_ACCOUNT || "200"
XERO_SALES_ACCOUNT == Str(<<"2", "0", "0">>)

\* the body of keys.forEach: one line from one item
BuildLine(rawItem, brandTrackingOption) ==
    LET item == Or(rawItem, EmptyObj)
        qtyRaw == Nullish(Get(item, "quantity"), Str(<<"1">>))
        lineTotal == Const({IF Truthy(NumV(price)) THEN price ELSE FromInt(0) :
                               price \in {parseFloat(Or(Get(item, "price"), Str(<<"0">>)))}})
        title == Or(Get(item, "title"), Str(<<"I", "t", "e", "m">>))
        detail == Trim(ToStr(Or(Get(item, "detail"), Str(<<>>))))
        qtyText == Const({IF ~isNaN(qty)
                          THEN <<" ", "(", "Q", "t", "y", " ">> \o NumToStr(qty) \o <<")">>
                          ELSE <<>> :
                             qty \in {parseFloat(qtyRaw)}})
        desc == ToStr(title) \o qtyText
                  \o (IF detail /= <<>> THEN <<" ", "-", " ">> \o detail ELSE <<>>)
        vatRateStr == Or(Get(item, "vat"), Str(<<"0">>))
        taxType == mapVatToTaxType(vatRateStr)
        line == << <<"description", Str(desc)>>,
                   <<"quantity", NumV(FromInt(1))>>,
                   <<"unitAmount", NumV(lineTotal)>>,
                   <<"accountCode", XERO_SALES_ACCOUNT>>,
                   <<"taxType", taxType>> >>
        tracking == Arr(<< Obj(<< <<"name", Str(<<"B", "r", "a", "n", "d">>)>>,
                                  <<"option", brandTrackingOption>> >>) >>)
    IN  Obj(line \o (IF Truthy(brandTrackingOption) THEN << <<"tracking", tracking>> >>
                     ELSE <<>>))

\* buildLineItems as it would be if it built the lines from the item
\* collection even when the payload carries a list of its own
buildLineItems_ignoresList(plPayload, brandTrackingOption) ==
    LET order_detail == Get(plPayload, "order_detail")
        items == Get(order_detail, "items")
    IN  IF ~Truthy(items) \/ ~TypeofObject(items) THEN <<>>
        ELSE [i \in 1..Len(Values(items)) |->
                 BuildLine(Values(items)[i], brandTrackingOption)]

\* buildLineItems as it would be if it left out the items of quantity 0
buildLineItems_dropsZeroQuantity(plPayload, brandTrackingOption) ==
    LET order_detail == Get(plPayload, "order_detail")
        lineItems == Get(plPayload, "lineItems")
        items == Get(order_detail, "items")
        kept == SelectSeq(Values(items),
                          LAMBDA item : parseFloat(Get(item, "quantity")) /= FromInt(0))
    IN  IF lineItems.t = "array" /\ Len(lineItems.a) > 0 THEN lineItems.a
        ELSE IF ~Truthy(items) \/ ~TypeofObject(items) THEN <<>>
        ELSE [i \in 1..Len(kept) |-> BuildLine(kept[i], brandTrackingOption)]

buildLineItems(plPayload, brandTrackingOption) ==
    LET order_detail == Get(plPayload, "order_detail")
        lineItems == Get(plPayload, "lineItems")
        items == Get(order_detail, "items")
    IN  IF lineItems.t = "array" /\ Len(lineItems.a) > 0 THEN lineItems.a
        ELSE IF ~Truthy(items) \/ ~TypeofObject(items) THEN <<>>
        ELSE [i \in 1..Len(Values(items)) |->
                 BuildLine(Values(items)[i], brandTrackingOption)]

-----------------------------------------------------------------------------
(* Arithmetic on the decimals *)

Min(a, b) == IF a <= b THEN a ELSE b

\* a + b
NumAdd(a, b) ==
    IF a.k = "nan" \/ b.k = "nan" THEN NaN
    ELSE IF a.k = "inf" /\ b.k = "inf" THEN (IF a.neg = b.neg THEN a ELSE NaN)
    ELSE IF a.k = "inf" THEN a
    ELSE IF b.k = "inf" THEN b
    ELSE LET x == Min(a.x, b.x)
         IN  Norm(a.m * Pow10(a.x - x) + b.m * Pow10(b.x - x), x)

\* Number.prototype.toFixed(2): two decimals, rounded half away from zero
ToFixed2(n) ==
    IF n.k /= "fin" THEN NumToStr(n)
    ELSE LET mag == Abs(n.m)
             cents == IF n.x + 2 >= 0 THEN mag * Pow10(n.x + 2)
                      ELSE (mag + 5 * Pow10(-(n.x + 2) - 1)) \div Pow10(-(n.x + 2))
             d == IntDigits(cents)
             padded == IF Len(d) < 3 THEN Zeros(3 - Len(d)) \o d ELSE d
         IN  (IF n.m < 0 /\ cents > 0 THEN <<"-">> ELSE <<>>)
                 \o SubSeq(padded, 1, Len(padded) - 2) \o <<".">>
                 \o SubSeq(padded, Len(padded) - 1, Len(padded))

\* the integer a whole number stands for
ToInt(n) == n.m * Pow10(n.x)

\* { ...a, ...b }: a's keys keep their place, b's values win, b's new keys follow
Spread(a, b) ==
    LET ap == IF a.t = "object" THEN a.p ELSE <<>>
        bp == IF b.t = "object" THEN b.p ELSE <<>>
        kept == [i \in 1..Len(ap) |->
                    IF HasKey(b, ap[i][1]) THEN <<ap[i][1], Get(b, ap[i][1])>> ELSE ap[i]]
    IN  Obj(kept \o SelectSeq(bp, LAMBDA q : ~HasKey(a, q[1])))

\* the object with one key set
With(o, key, val) == Spread(o, Obj(<< <<key, val>> >>))

RECURSIVE Jsonify(_)
\* JSON.parse(JSON.stringify(v)): undefined members are dropped and a number
\* that is not finite becomes null
Jsonify(v) ==
    CASE v.t = "object" ->
           LET q == SelectSeq(v.p, LAMBDA e : e[2].t /= "undefined")
           IN  Obj([i \in 1..Len(q) |-> <<q[i][1], Jsonify(q[i][2])>>])
      [] v.t = "array" ->
           Arr([i \in 1..Len(v.a) |->
                   IF v.a[i].t = "undefined" THEN Null ELSE Jsonify(v.a[i])])
      [] v.t = "number" -> IF v.n.k = "fin" THEN v ELSE Null
      [] OTHER -> v

-----------------------------------------------------------------------------
(* invoiceService.js: toBool and deriveContext *)

UpperCase == <<"A", "B", "C", "D", "E", "F", "G", "H", "I", "J", "K", "L", "M",
               "N", "O", "P", "Q", "R", "S", "T", "U", "V", "W", "X", "Y", "Z">>
LowerCase == <<"a", "b", "c", "d", "e", "f", "g", "h", "i", "j", "k", "l", "m",
               "n", "o", "p", "q", "r", "s", "t", "u", "v", "w", "x", "y", "z">>

LowerChar(c) ==
    IF \E i \in 1..26 : UpperCase[i] = c
    THEN LowerCase[CHOOSE i \in 1..26 : UpperCase[i] = c]
    ELSE c

\* String.prototype.toLowerCase
ToLowerCase(s) == [i \in 1..Len(s) |-> LowerChar(s[i])]

\* toBool as it would be if it compared the text without lowering its case
toBool_caseSensitive(val) ==
    IF val.t = "boolean" THEN val.b
    ELSE IF val.t \in {"undefined", "null"} THEN FALSE
    ELSE LET s == Trim(ToStr(val))
         IN  s = <<"t", "r", "u", "e">> \/ s = <<"1">> \/ s = <<"y", "e", "s">>

toBool(val) ==
    IF val.t = "boolean" THEN val.b
    ELSE IF val.t \in {"undefined", "null"} THEN FALSE
    ELSE LET s == ToLowerCase(Trim(ToStr(val)))
         IN  s = <<"t", "r", "u", "e">> \/ s = <<"1">> \/ s = <<"y", "e", "s">>

\* process.env.XERO_BRAND_EDINBURGH
EnvBrandEdinburgh == Str(<<"b", "e">>)

\* process.env.XERO_STRIPE_ACCOUNT || process.env.XERO_STRIPE_ACCOUNT_CODE || "0002"
EnvStripeAccount == Or(Undefined, Or(Undefined, Str(<<"0", "0", "0", "2">>)))

Edinburgh_Banners == Str(<<"E", "d", "i", "n", "b", "u", "r", "g", "h", "_",
                           "B", "a", "n", "n", "e", "r", "s">>)
EdinburghBannersLabel == Str(<<"E", "d", "i", "n", "b", "u", "r", "g", "h", " ",
                               "B", "a", "n", "n", "e", "r", "s">>)
DefaultLabel == Str(<<"D", "e", "f", "a", "u", "l", "t">>)

\* payload.pl_order with its default, = {}
PlOrder(payload) ==
    IF Get(payload, "pl_order").t = "undefined" THEN EmptyObj ELSE Get(payload, "pl_order")

OrderDetail(payload) ==
    IF Get(payload, "order_detail").t = "undefined" THEN EmptyObj
    ELSE Get(payload, "order_detail")

\* deriveContext as it would be if an empty template were passed through
\* instead of replaced by "Default"
deriveContext_noDefault(payload) ==
    LET template == Get(payload, "template")
        order_po == Get(payload, "order_po")
        isWebOrder == Truthy(order_po) /\ order_po.t = "string"
                        /\ IsPrefix(<<"W", "E", "B", "-">>, order_po.s)
        category0 == Or(Get(PlOrder(payload), "customer_category"), Str(<<>>))
        tpl == Or(template, Or(category0, Str(<<>>)))
        special == tpl = Edinburgh_Banners
    IN  Obj(<< <<"template", tpl>>,
               <<"logicSource", Or(Get(payload, "logicSource"), Str(<<>>))>>,
               <<"isWebOrder", Bool(isWebOrder)>>,
               <<"customerCategory",
                 IF special THEN Edinburgh_Banners ELSE Or(category0, tpl)>>,
               <<"brandingThemeId",
                 IF special THEN Or(EnvBrandEdinburgh, Undefined) ELSE Undefined>>,
               <<"brandTrackingOption",
                 IF special THEN EdinburghBannersLabel ELSE tpl>>,
               <<"markAsPaidFlag", Bool(toBool(Get(payload, "markAsPaid")))>>,
               <<"emailCustomerFlag", Bool(toBool(Get(payload, "emailCustomer")))>>,
               <<"XERO_STRIPE_ACCOUNT", EnvStripeAccount>> >>)

deriveContext(payload) ==
    LET template == Get(payload, "template")
        order_po == Get(payload, "order_po")
        isWebOrder == Truthy(order_po) /\ order_po.t = "string"
                        /\ IsPrefix(<<"W", "E", "B", "-">>, order_po.s)
        category0 == Or(Get(PlOrder(payload), "customer_category"), Str(<<>>))
        tpl == Or(template, Or(category0, Str(<<>>)))
        special == tpl = Edinburgh_Banners
    IN  Obj(<< <<"template", tpl>>,
               <<"logicSource", Or(Get(payload, "logicSource"), Str(<<>>))>>,
               <<"isWebOrder", Bool(isWebOrder)>>,
               <<"customerCategory",
                 IF special THEN Edinburgh_Banners
                 ELSE Or(category0, Or(tpl, DefaultLabel))>>,
               <<"brandingThemeId",
                 IF special THEN Or(EnvBrandEdinburgh, Undefined) ELSE Undefined>>,
               <<"brandTrackingOption",
                 IF special THEN EdinburghBannersLabel ELSE Or(tpl, DefaultLabel)>>,
               <<"markAsPaidFlag", Bool(toBool(Get(payload, "markAsPaid")))>>,
               <<"emailCustomerFlag", Bool(toBool(Get(payload, "emailCustomer")))>>,
               <<"XERO_STRIPE_ACCOUNT", EnvStripeAccount>> >>)

\* a && b
And(a, b) == IF Truthy(a) THEN b ELSE a

\* maybeMarkAsPaid: the total including VAT of one source, or null
TotalOf(src) ==
    IF Truthy(And(Get(src, "order_total"), Get(src, "order_vat")))
    THEN Str(ToFixed2(NumAdd(parseFloat(Or(Get(src, "order_total"), Str(<<"0">>))),
                             parseFloat(Or(Get(src, "order_vat"), Str(<<"0">>))))))
    ELSE Null

\* maybeMarkAsPaid: the amount of the payment, or null
PaymentAmount(payload) ==
    LET totalIncVatStr ==
            Or(Get(PlOrder(payload), "order_tot_incvat"),
               Or(TotalOf(PlOrder(payload)), TotalOf(OrderDetail(payload))))
    IN  IF Truthy(totalIncVatStr) THEN NumV(parseFloat(totalIncVatStr)) ELSE Null

\* maybeMarkAsPaid issues createPayments
PaymentDue(payload, context, createdInvoice) ==
    /\ Truthy(Get(context, "markAsPaidFlag"))
    /\ Truthy(createdInvoice) /\ Truthy(Get(createdInvoice, "invoiceID"))
    /\ Truthy(PaymentAmount(payload))

\* maybeEmailInvoice issues emailInvoice
EmailDue(context, createdInvoice) ==
    /\ Truthy(Get(context, "emailCustomerFlag"))
    /\ Truthy(createdInvoice) /\ Truthy(Get(createdInvoice, "invoiceID"))

-----------------------------------------------------------------------------
(* invoiceService.js: buildInvoiceModel; invoiceHelpers.js: the legacy      *)
(* buildInvoicePayload                                                     *)

\* new Date().toISOString().slice(0, 10)
TodayIso == Str(<<"2", "0", "2", "6", "-", "0", "1", "-", "0", "5">>)

\* the same, ten days later
TenDaysOn == Str(<<"2", "0", "2", "6", "-", "0", "1", "-", "1", "5">>)

NoDate == Str(<<"0", "0", "0", "0", "-", "0", "0", "-", "0", "0">>)
UnknownCustomer == Str(<<"U", "n", "k", "n", "o", "w", "n", " ",
                         "C", "u", "s", "t", "o", "m", "e", "r">>)
AUTHORISED == Str(<<"A", "U", "T", "H", "O", "R", "I", "S", "E", "D">>)
ACCREC == Str(<<"A", "C", "C", "R", "E", "C">>)
Exclusive == Str(<<"E", "x", "c", "l", "u", "s", "i", "v", "e">>)

\* `[${v}]`
Bracketed(v) == Str(<<"[">> \o ToStr(v) \o <<"]">>)

RECURSIVE Join(_)
\* Array.prototype.join(" ")
Join(parts) ==
    IF Len(parts) = 0 THEN <<>>
    ELSE IF Len(parts) = 1 THEN ToStr(parts[1])
    ELSE ToStr(parts[1]) \o <<" ">> \o Join(Tail(parts))

\* buildInvoiceModel: const contactName
contactName(payload) ==
    Or(Get(PlOrder(payload), "customer_name"),
       Or(Get(OrderDetail(payload), "customer_name"),
          Or(Get(PlOrder(payload), "order_contact"),
             Or(Get(OrderDetail(payload), "order_contact"), UnknownCustomer))))

\* the reference as it would be if the order number were not bracketed
reference_plainNumber(payload) ==
    LET order_number == Get(payload, "order_number")
        order_po == Get(payload, "order_po")
        referenceParts == (IF Truthy(order_po) THEN <<order_po>> ELSE <<>>)
                            \o (IF Truthy(order_number) THEN <<order_number>> ELSE <<>>)
    IN  Str(Join(referenceParts))

\* buildInvoiceModel: const reference
reference(payload) ==
    LET order_number == Get(payload, "order_number")
        order_po == Get(payload, "order_po")
        referenceParts == (IF Truthy(order_po) THEN <<order_po>> ELSE <<>>)
                            \o (IF Truthy(order_number) THEN <<Bracketed(order_number)>>
                                ELSE <<>>)
    IN  Str(Join(referenceParts))

buildInvoiceModel(payload, context) ==
    LET pl_order == PlOrder(payload)
        order_detail == OrderDetail(payload)
        brandingThemeId == Get(context, "brandingThemeId")
        contactEmail ==
            Or(Get(pl_order, "customer_email"),
               Or(Get(pl_order, "order_contact_email"),
                  Or(Get(order_detail, "order_contact_email"),
                     Or(Get(order_detail, "customer_email"), Undefined))))
        dueDate == IF Truthy(Get(order_detail, "order_date_due"))
                        /\ Get(order_detail, "order_date_due") /= NoDate
                   THEN Get(order_detail, "order_date_due")
                   ELSE TodayIso
    IN  Obj(<< <<"type", ACCREC>>,
               <<"contact",
                 Obj(<< <<"name", contactName(payload)>> >>
                        \o (IF Truthy(contactEmail)
                            THEN << <<"emailAddress", contactEmail>> >>
                            ELSE <<>>))>>,
               <<"lineItems",
                 Arr(buildLineItems(payload, Get(context, "brandTrackingOption")))>>,
               <<"date", TodayIso>>,
               <<"dueDate", dueDate>>,
               <<"reference", reference(payload)>>,
               <<"status", AUTHORISED>>,
               <<"lineAmountTypes", Exclusive>> >>
              \o (IF Truthy(brandingThemeId)
                  THEN << <<"brandingThemeID", brandingThemeId>> >>
                  ELSE <<>>))

\* the legacy builder, which invoiceService.js does not call
buildInvoicePayload(args) ==
    LET order_number == Get(args, "order_number")
        order_po == Get(args, "order_po")
        pl_order == Get(args, "pl_order")
        order_detail == Get(args, "order_detail")
        brandingThemeId == Get(args, "brandingThemeId")
        dueDate == IF Truthy(Get(order_detail, "order_date_due"))
                   THEN Get(order_detail, "order_date_due")
                   ELSE TenDaysOn
        po == IF Truthy(order_po) THEN Str(ToStr(order_po)) ELSE Str(<<>>)
        job == IF Truthy(order_number) THEN Str(ToStr(order_number)) ELSE Str(<<>>)
        legacyReference == IF Truthy(po) /\ Truthy(job)
                     THEN Str(po.s \o <<" ">> \o Bracketed(job).s)
                     ELSE IF Truthy(po) THEN po
                     ELSE IF Truthy(job) THEN Bracketed(job)
                     ELSE Str(<<>>)
        customerEmail == Or(Get(pl_order, "customer_email"),
                            Or(Get(order_detail, "order_contact_email"), Str(<<>>)))
        name == Or(Get(pl_order, "customer_name"),
                   Or(Get(pl_order, "order_contact"),
                      Str(<<"O", "r", "d", "e", "r", " ">> \o ToStr(order_number))))
        contact == IF Truthy(customerEmail)
                   THEN Obj(<< <<"name", name>>, <<"emailAddress", customerEmail>> >>)
                   ELSE Obj(<< <<"name", name>> >>)
        invoiceBody == << <<"type", ACCREC>>,
                          <<"contact", contact>>,
                          <<"lineItems", Get(args, "xeroLineItems")>>,
                          <<"date", TodayIso>>,
                          <<"dueDate", dueDate>>,
                          <<"reference", legacyReference>>,
                          <<"status", AUTHORISED>>,
                          <<"lineAmountTypes", Exclusive>> >>
    IN  Obj(<< <<"Invoices",
                 Arr(<< Obj(invoiceBody
                              \o (IF Truthy(brandingThemeId)
                                  THEN << <<"brandingThemeID", brandingThemeId>> >>
                                  ELSE <<>>)) >>)>> >>)

-----------------------------------------------------------------------------
(* xeroClient.js: the token set, the token file and the clock *)

\* data.expires_in || 1800
DefaultLifetime == 1800

StartSec == 2 * DefaultLifetime
EndSec == StartSec + MaxTicks * DefaultLifetime

NoFile == [t |-> "nofile"]
Corrupt == [t |-> "corrupt"]

\* the file after fs.writeFileSync(TOKEN_PATH, JSON.stringify(tokenSet, null, 2)),
\* as JSON.parse reads it back
saveToken(tokenSet) == [t |-> "json", v |-> Jsonify(tokenSet)]

hasValidRefresh_anyString(tokenSet) ==
    /\ Truthy(tokenSet)
    /\ Get(tokenSet, "refresh_token").t = "string"

hasValidRefresh(tokenSet) ==
    /\ Truthy(tokenSet)
    /\ Get(tokenSet, "refresh_token").t = "string"
    /\ Len(Get(tokenSet, "refresh_token").s) > 0

isTokenExpiredLocal(tokenSet, now) ==
    IF ~Truthy(tokenSet) \/ ~Truthy(Get(tokenSet, "expires_at")) THEN FALSE
    ELSE now >= ToInt(Get(tokenSet, "expires_at").n)

AccessCred(k) == Str(<<"a", DigitChar(k)>>)
RefreshCred(k) == Str(<<"r", DigitChar(k)>>)

\* what the identity endpoint answers: the k-th credential pair, and the
\* lifetime it declares or omits
Lifetimes == {Absent, NumV(FromInt(2 * DefaultLifetime))}

TokenResponse(k, lifetime) ==
    MkObj(<< <<"access_token", AccessCred(k)>>,
             <<"refresh_token", RefreshCred(k)>>,
             <<"expires_in", lifetime>> >>)

\* the new token set as it would be if the fields of the previous one were
\* not carried over
NewTokenSet_answerOnly(tokenSet, data, now) ==
    With(data, "expires_at",
         NumV(FromInt(now + ToInt(Or(Get(data, "expires_in"),
                                     NumV(FromInt(DefaultLifetime))).n))))

\* refreshWithAxios: the token set built from the previous one and the answer
NewTokenSet(tokenSet, data, now) ==
    With(Spread(tokenSet, data), "expires_at",
         NumV(FromInt(now + ToInt(Or(Get(data, "expires_in"),
                                     NumV(FromInt(DefaultLifetime))).n))))

\* the organisations the vendor lists for a credential
T1 == Str(<<"T", "1">>)
T2 == Str(<<"T", "2">>)
Conn(id) == Obj(<< <<"tenantId", id>> >>)
TenantLists == {<<>>, <<Conn(T1)>>, <<Conn(T2), Conn(T1)>>}

\* the token files the process may find when it starts
StoredToken(exp) ==
    Obj(<< <<"access_token", AccessCred(0)>>,
           <<"refresh_token", RefreshCred(0)>>,
           <<"expires_at", NumV(FromInt(exp))>>,
           <<"id_token", Str(<<"i", "0">>)>> >>)

InitFiles ==
    {NoFile, Corrupt,
     saveToken(Obj(<< <<"access_token", AccessCred(0)>> >>)),
     saveToken(Obj(<< <<"access_token", AccessCred(0)>>, <<"refresh_token", Str(<<>>)>> >>)),
     saveToken(StoredToken(StartSec - 1)),
     saveToken(StoredToken(StartSec + DefaultLifetime))}

-----------------------------------------------------------------------------
(* The requests *)

\* the slots of the requests in flight
Reqs == DOMAIN req

IdleReq ==
    [kind |-> "idle", pc |-> "idle", payload |-> Undefined, context |-> Undefined,
     events |-> <<>>, idx |-> 0, tokenSet |-> Undefined, tid |-> Undefined,
     conns |-> <<>>, created |-> Undefined, ensure |-> "none", log |-> <<>>, result |-> Undefined]

Logged(q, e) == [q EXCEPT !.log = Append(@, e)]
Done(q, res) == [q EXCEPT !.pc = "done", !.result = res]

\* a request may arrive in a free slot
MayStart(r) == req[r].kind = "idle"

NotAuthenticated == "No Xero refresh token available. Re-authenticate Xero via the connect endpoint."
RefreshFailed == "Failed to refresh Xero token. You may need to re-connect Xero via the browser auth flow."
TenantsFailed == "Failed to fetch Xero tenants after token refresh."
NoTenant == "No Xero tenants available. Check the Xero org connection."

\* POST /create-invoice: the catch block's answer to a thrown error
RouteError(message) == [http |-> 500, ok |-> FALSE, error |-> message]

\* logicConfig.js
applyServerSideLogic(rawPayload) == Spread(EmptyObj, Or(rawPayload, EmptyObj))

InvoiceBodies ==
    {MkObj(<< <<"order_number", Str(<<"6", "2">>)>>,
              <<"markAsPaid", Bool(TRUE)>>, <<"emailCustomer", Str(<<"Y", "E", "S">>)>>,
              <<"pl_order", Obj(<< <<"order_tot_incvat", Str(<<"1", "2">>)>> >>)>> >>),
     MkObj(<< <<"markAsPaid", Str(<<"t", "r", "u", "e">>)>>,
              <<"emailCustomer", Bool(TRUE)>> >>),
     MkObj(<< <<"markAsPaid", Str(<<"1">>)>>, <<"emailCustomer", Str(<<"n", "o">>)>>,
              <<"order_detail", Obj(<< <<"order_total", Str(<<"1", "0">>)>>,
                                       <<"order_vat", Str(<<"2">>)>> >>)>> >>),
     EmptyObj,
     MkObj(<< <<"_skipXero", Bool(TRUE)>> >>)}

\* ensureXeroReady as it would be if it refreshed only a token set whose expiry
\* has passed
EnsureEnter_refreshIfExpired(q) ==
    LET inMemory == memToken
        loads == ~hasValidRefresh(inMemory) /\ tokenFile.t = "json"
        tokenSet == IF loads THEN tokenFile.v ELSE inMemory
        q1 == IF ~hasValidRefresh(inMemory)
              THEN Logged(q, [op |-> "existsSync", found |-> tokenFile.t /= "nofile"])
              ELSE q
    IN  [mem |-> IF loads THEN tokenFile.v ELSE memToken,
         q |-> IF ~hasValidRefresh(tokenSet)
               THEN Done([q1 EXCEPT !.ensure = "NotAuthenticated"],
                         RouteError(NotAuthenticated))
               ELSE IF ~isTokenExpiredLocal(tokenSet, nowSec)
               THEN Logged([q1 EXCEPT !.pc = "tenants", !.ensure = "running",
                                      !.tokenSet = tokenSet],
                           [op |-> "updateTenants"])
               ELSE Logged([q1 EXCEPT !.pc = "refresh", !.ensure = "running",
                                      !.tokenSet = tokenSet],
                           [op |-> "refresh",
                            refresh_token |-> Get(tokenSet, "refresh_token"),
                            expired |-> isTokenExpiredLocal(tokenSet, nowSec)])]

\* ensureXeroReady as it would be with a single-flight guard: a call that finds
\* another call's refresh in flight sends none of its own
EnsureEnter_joinsRefreshInFlight(q) ==
    LET inMemory == memToken
        loads == ~hasValidRefresh(inMemory) /\ tokenFile.t = "json"
        tokenSet == IF loads THEN tokenFile.v ELSE inMemory
        q1 == IF ~hasValidRefresh(inMemory)
              THEN Logged(q, [op |-> "existsSync", found |-> tokenFile.t /= "nofile"])
              ELSE q
    IN  [mem |-> IF loads THEN tokenFile.v ELSE memToken,
         q |-> IF ~hasValidRefresh(tokenSet)
               THEN Done([q1 EXCEPT !.ensure = "NotAuthenticated"],
                         RouteError(NotAuthenticated))
               ELSE IF \E s \in Reqs : req[s].pc = "refresh"
               THEN Logged([q1 EXCEPT !.pc = "tenants", !.ensure = "running",
                                      !.tokenSet = tokenSet],
                           [op |-> "updateTenants"])
               ELSE Logged([q1 EXCEPT !.pc = "refresh", !.ensure = "running",
                                      !.tokenSet = tokenSet],
                           [op |-> "refresh",
                            refresh_token |-> Get(tokenSet, "refresh_token"),
                            expired |-> isTokenExpiredLocal(tokenSet, nowSec)])]

\* ensureXeroReady up to its first network call: the token set in memory, else
\* the one on disk; then the check and the refresh call.  The result is the
\* slot and the client's token set afterwards.
EnsureEnter(q) ==
    LET inMemory == memToken
        loads == ~hasValidRefresh(inMemory) /\ tokenFile.t = "json"
        tokenSet == IF loads THEN tokenFile.v ELSE inMemory
        q1 == IF ~hasValidRefresh(inMemory)
              THEN Logged(q, [op |-> "existsSync", found |-> tokenFile.t /= "nofile"])
              ELSE q
    IN  [mem |-> IF loads THEN tokenFile.v ELSE memToken,
         q |-> IF ~hasValidRefresh(tokenSet)
               THEN Done([q1 EXCEPT !.ensure = "NotAuthenticated"],
                         RouteError(NotAuthenticated))
               ELSE Logged([q1 EXCEPT !.pc = "refresh", !.ensure = "running",
                                      !.tokenSet = tokenSet],
                           [op |-> "refresh",
                            refresh_token |-> Get(tokenSet, "refresh_token"),
                            expired |-> isTokenExpiredLocal(tokenSet, nowSec)])]

\* POST /create-invoice with one of the given bodies, to the first network
\* call of createInvoiceFromPlPayload
StartInvoice(r, bodies) ==
    /\ MayStart(r)
    /\ \E body \in bodies :
          LET payload == applyServerSideLogic(body)
              q0 == [IdleReq EXCEPT !.kind = "invoice", !.payload = payload]
              e == EnsureEnter([q0 EXCEPT !.context = deriveContext(payload)])
          IN  IF Truthy(Get(payload, "_skipXero"))
              THEN /\ req' = [req EXCEPT ![r] =
                                Done(q0, [http |-> 200, ok |-> TRUE, skipped |-> TRUE])]
                   /\ UNCHANGED memToken
              ELSE /\ req' = [req EXCEPT ![r] = e.q]
                   /\ memToken' = e.mem
    /\ UNCHANGED <<tokenFile, tenantId, envTenant, plConfigured, nowSec, issued, boot, pure>>

\* the refresh call answered, as it would be if a rejected refresh removed the
\* token file
RefreshResp_failureDeletesFile(r) ==
    /\ req[r].pc = "refresh"
    /\ \/ /\ req' = [req EXCEPT ![r] =
                       Done([@ EXCEPT !.ensure = "RefreshFailed"], RouteError(RefreshFailed))]
          /\ tokenFile' = NoFile
          /\ UNCHANGED <<memToken, issued>>
       \/ /\ issued < MaxIssued
          /\ \E lifetime \in Lifetimes :
                LET newTokenSet == NewTokenSet(req[r].tokenSet,
                                               TokenResponse(issued + 1, lifetime), nowSec)
                IN  /\ memToken' = newTokenSet
                    /\ tokenFile' = saveToken(newTokenSet)
                    /\ req' = [req EXCEPT ![r] =
                                 Logged(Logged([@ EXCEPT !.pc = "tenants",
                                                         !.tokenSet = newTokenSet],
                                               [op |-> "saveToken"]),
                                        [op |-> "updateTenants"])]
          /\ issued' = issued + 1
    /\ UNCHANGED <<tenantId, envTenant, plConfigured, nowSec, boot, pure>>

\* the refresh call answered, as it would be if the new token set were written
\* to the file without being handed to the client
RefreshResp_savesOnly(r) ==
    /\ req[r].pc = "refresh"
    /\ \/ /\ req' = [req EXCEPT ![r] =
                       Done([@ EXCEPT !.ensure = "RefreshFailed"], RouteError(RefreshFailed))]
          /\ UNCHANGED <<memToken, tokenFile, issued>>
       \/ /\ issued < MaxIssued
          /\ \E lifetime \in Lifetimes :
                LET newTokenSet == NewTokenSet(req[r].tokenSet,
                                               TokenResponse(issued + 1, lifetime), nowSec)
                IN  /\ UNCHANGED memToken
                    /\ tokenFile' = saveToken(newTokenSet)
                    /\ req' = [req EXCEPT ![r] =
                                 Logged(Logged([@ EXCEPT !.pc = "tenants",
                                                         !.tokenSet = newTokenSet],
                                               [op |-> "saveToken"]),
                                        [op |-> "updateTenants"])]
          /\ issued' = issued + 1
    /\ UNCHANGED <<tenantId, envTenant, plConfigured, nowSec, boot, pure>>

\* the identity endpoint answers the refresh call of refreshWithAxios
RefreshResp(r) ==
    /\ req[r].pc = "refresh"
    /\ \/ /\ req' = [req EXCEPT ![r] =
                       Done([@ EXCEPT !.ensure = "RefreshFailed"], RouteError(RefreshFailed))]
          /\ UNCHANGED <<memToken, tokenFile, issued>>
       \/ /\ issued < MaxIssued
          /\ \E lifetime \in Lifetimes :
                LET newTokenSet == NewTokenSet(req[r].tokenSet,
                                               TokenResponse(issued + 1, lifetime), nowSec)
                IN  /\ memToken' = newTokenSet
                    /\ tokenFile' = saveToken(newTokenSet)
                    /\ req' = [req EXCEPT ![r] =
                                 Logged(Logged([@ EXCEPT !.pc = "tenants",
                                                         !.tokenSet = newTokenSet],
                                               [op |-> "saveToken"]),
                                        [op |-> "updateTenants"])]
          /\ issued' = issued + 1
    /\ UNCHANGED <<tenantId, envTenant, plConfigured, nowSec, boot, pure>>

\* updateTenants answered, as it would be if an empty list did not stop the
\* request
TenantsResp_noTenantGoesOn(r) ==
    /\ req[r].pc = "tenants"
    /\ \/ /\ req' = [req EXCEPT ![r] =
                       Done([@ EXCEPT !.ensure = "TenantsFailed"], RouteError(TenantsFailed))]
          /\ UNCHANGED tenantId
       \/ \E conns \in TenantLists :
             LET xeroTenantId == IF Len(conns) = 0 THEN Undefined
                                 ELSE Get(conns[1], "tenantId")
             IN  /\ tenantId' = xeroTenantId
                 /\ req' = [req EXCEPT ![r] =
                              Logged([@ EXCEPT !.pc = "create",
                                               !.ensure = IF Len(conns) = 0 THEN "NoTenant"
                                                          ELSE "ok",
                                               !.conns = conns,
                                               !.tid = xeroTenantId],
                                     [op |-> "createInvoices",
                                      tenant |-> xeroTenantId])]
    /\ UNCHANGED <<memToken, tokenFile, envTenant, plConfigured, nowSec, issued, boot, pure>>

\* the vendor answers updateTenants of ensureXeroReady; on success the
\* invoice path goes on to createInvoices
TenantsResp(r) ==
    /\ req[r].pc = "tenants"
    /\ \/ /\ req' = [req EXCEPT ![r] =
                       Done([@ EXCEPT !.ensure = "TenantsFailed"], RouteError(TenantsFailed))]
          /\ UNCHANGED tenantId
       \/ \E conns \in TenantLists :
             IF Len(conns) = 0
             THEN /\ req' = [req EXCEPT ![r] =
                               Done([@ EXCEPT !.ensure = "NoTenant"], RouteError(NoTenant))]
                  /\ UNCHANGED tenantId
             ELSE LET xeroTenantId == Get(conns[1], "tenantId")
                  IN  /\ tenantId' = xeroTenantId
                      /\ req' = [req EXCEPT ![r] =
                                   Logged([@ EXCEPT !.pc = "create", !.ensure = "ok",
                                                    !.conns = conns,
                                                    !.tid = xeroTenantId],
                                          [op |-> "createInvoices",
                                           tenant |-> xeroTenantId])]
    /\ UNCHANGED <<memToken, tokenFile, envTenant, plConfigured, nowSec, issued, boot, pure>>

\* createInvoiceFromPlPayload's success result
Success(q) ==
    [http |-> 200, ok |-> TRUE,
     result |-> [success |-> TRUE, invoice |-> q.created]]

\* maybeEmailInvoice, after maybeMarkAsPaid has returned
EmailOrDone(q) ==
    IF EmailDue(q.context, q.created)
    THEN Logged([q EXCEPT !.pc = "email"],
                [op |-> "emailInvoice", tenant |-> q.tid,
                 invoiceID |-> Get(q.created, "invoiceID")])
    ELSE Done(q, Success(q))

\* maybeMarkAsPaid, after createInvoices has answered
PayOrEmail(q) ==
    IF PaymentDue(q.payload, q.context, q.created)
    THEN Logged([q EXCEPT !.pc = "pay"],
                [op |-> "createPayments", tenant |-> q.tid,
                 invoiceID |-> Get(q.created, "invoiceID"),
                 amount |-> PaymentAmount(q.payload)])
    ELSE EmailOrDone(q)

CreatedInvoice == Obj(<< <<"invoiceID", Str(<<"I", "1">>)>> >>)

\* what createInvoices answers in result.body.invoices
CreateReplies == {<<>>, <<CreatedInvoice>>}

\* the vendor answers createInvoices
CreateResp(r) ==
    /\ req[r].pc = "create"
    /\ \/ req' = [req EXCEPT ![r] =
                    Done(Logged(@, [op |-> "createInvoices.error"]),
                         [http |-> 200, ok |-> TRUE,
                          result |-> [success |-> FALSE, error |-> "VendorRejected"]])]
       \/ \E invoices \in CreateReplies :
             req' = [req EXCEPT ![r] =
                       PayOrEmail(Logged([@ EXCEPT !.created =
                                            IF Len(invoices) > 0 THEN invoices[1] ELSE Null],
                                         [op |-> "createInvoices.ok"]))]
    /\ UNCHANGED <<memToken, tokenFile, tenantId, envTenant, plConfigured, nowSec,
                   issued, boot, pure>>

\* createPayments answered, as it would be if its error were not caught
PayResp_failAborts(r) ==
    /\ req[r].pc = "pay"
    /\ \/ req' = [req EXCEPT ![r] =
                    Done(Logged(@, [op |-> "createPayments.error"]),
                         [http |-> 200, ok |-> TRUE,
                          result |-> [success |-> FALSE, error |-> "VendorRejected"]])]
       \/ req' = [req EXCEPT ![r] = EmailOrDone(Logged(@, [op |-> "createPayments.ok"]))]
    /\ UNCHANGED <<memToken, tokenFile, tenantId, envTenant, plConfigured, nowSec,
                   issued, boot, pure>>

\* the vendor answers createPayments; an error is caught and logged
PayResp(r) ==
    /\ req[r].pc = "pay"
    /\ \/ req' = [req EXCEPT ![r] = EmailOrDone(Logged(@, [op |-> "createPayments.error"]))]
       \/ req' = [req EXCEPT ![r] = EmailOrDone(Logged(@, [op |-> "createPayments.ok"]))]
    /\ UNCHANGED <<memToken, tokenFile, tenantId, envTenant, plConfigured, nowSec,
                   issued, boot, pure>>

\* the vendor answers emailInvoice; an error is caught and logged
EmailResp(r) ==
    /\ req[r].pc = "email"
    /\ \/ req' = [req EXCEPT ![r] =
                    LET q == Logged(@, [op |-> "emailInvoice.error"]) IN Done(q, Success(q))]
       \/ req' = [req EXCEPT ![r] =
                    LET q == Logged(@, [op |-> "emailInvoice.ok"]) IN Done(q, Success(q))]
    /\ UNCHANGED <<memToken, tokenFile, tenantId, envTenant, plConfigured, nowSec,
                   issued, boot, pure>>

\* the response has been sent; the slot is free for the next request
Finish(r) ==
    /\ req[r].pc = "done"
    /\ req' = [req EXCEPT ![r] = IdleReq]
    /\ UNCHANGED <<memToken, tokenFile, tenantId, envTenant, plConfigured, nowSec,
                   issued, boot, pure>>

-----------------------------------------------------------------------------
(* xero-bridge.js: the payment webhook *)

INVOICE == Str(<<"I", "N", "V", "O", "I", "C", "E">>)
UPDATE == Str(<<"U", "P", "D", "A", "T", "E">>)
PAID == Str(<<"P", "A", "I", "D">>)
PrePress == Str(<<"P", "r", "e", "-", "P", "r", "e", "s", "s">>)
OkText == Str(<<"o", "k">>)
PLACEHOLDER ==
    Str(<<"P", "A", "I", "D", "_", "I", "N", "V", "O", "I", "C", "E", "_", "I", "D", "_",
          "G", "O", "E", "S", "_", "H", "E", "R", "E">>)

RECURSIVE BracketAt(_, _)
\* the leftmost index from i on where /\[(\d+)\]/ matches, 0 when there is none
BracketAt(s, i) ==
    IF i > Len(s) THEN 0
    ELSE IF s[i] = "[" /\ DigitsEnd(s, i + 1) > i + 1
              /\ DigitsEnd(s, i + 1) <= Len(s) /\ s[DigitsEnd(s, i + 1)] = "]"
    THEN i
    ELSE BracketAt(s, i + 1)

extractOrderNumberFromReference(ref) ==
    IF ~Truthy(ref) \/ ref.t /= "string" THEN Null
    ELSE LET i == BracketAt(ref.s, 1)
         IN  IF i = 0 THEN Null
             ELSE Str(SubSeq(ref.s, i + 1, DigitsEnd(ref.s, i + 1) - 1))

Event(category, type, id) ==
    MkObj(<< <<"eventCategory", category>>, <<"eventType", type>>, <<"resourceId", id>> >>)

EventInputs ==
    {Event(INVOICE, UPDATE, Str(<<"I", "1">>)),
     Event(INVOICE, UPDATE, PLACEHOLDER),
     Event(INVOICE, UPDATE, Absent),
     Event(INVOICE, Str(<<"C", "R", "E", "A", "T", "E">>), Str(<<"I", "1">>)),
     Event(Str(<<"C", "O", "N", "T", "A", "C", "T">>), UPDATE, Str(<<"I", "1">>))}

\* the notifications of at most n events
WebhookBodies(n) ==
    {EmptyObj, Obj(<< <<"events", Str(<<"x">>)>> >>)}
        \cup {Obj(<< <<"events", Arr(es)>> >>) : es \in SeqsUpTo(EventInputs, n)}

\* the tests of the loop body, as they would be without the one for the
\* placeholder id
Skipped_keepsPlaceholder(event) ==
    \/ Get(event, "eventCategory") /= INVOICE
    \/ Get(event, "eventType") /= UPDATE
    \/ ~Truthy(Get(event, "resourceId"))

\* the tests of the loop body that skip an event before any call is made
Skipped(event) ==
    \/ Get(event, "eventCategory") /= INVOICE
    \/ Get(event, "eventType") /= UPDATE
    \/ ~Truthy(Get(event, "resourceId"))
    \/ Get(event, "resourceId") = PLACEHOLDER

RECURSIVE NextToFetch(_, _)
\* the first event from index i on that the loop does not skip
NextToFetch(events, i) ==
    IF i > Len(events) THEN i
    ELSE IF Skipped(events[i]) THEN NextToFetch(events, i + 1)
    ELSE i

\* the for loop from event i on, to its next network call or to its end
WebhookLoop(q, i) ==
    LET j == NextToFetch(q.events, i)
    IN  IF j > Len(q.events)
        THEN Done([q EXCEPT !.idx = j], [http |-> 200, body |-> "OK"])
        ELSE Logged([q EXCEPT !.idx = j, !.pc = "fetch"],
                    [op |-> "getInvoice", ev |-> j, tenant |-> q.tid,
                     id |-> Get(q.events[j], "resourceId")])

WebhookError == [http |-> 500, body |-> "Error handling invoice webhook"]

\* POST /xero/invoice-webhook with one of the given bodies, to its first
\* network call
StartWebhook(r, bodies) ==
    /\ MayStart(r)
    /\ \E body \in bodies :
          LET events == Or(Get(body, "events"), Arr(<<>>))
              q0 == [IdleReq EXCEPT !.kind = "webhook"]
          IN  req' = [req EXCEPT ![r] =
                        IF events.t /= "array" \/ Len(events.a) = 0
                        THEN Done(q0, [http |-> 200, body |-> "No events"])
                        ELSE Logged([q0 EXCEPT !.events = events.a, !.pc = "wtenants"],
                                    [op |-> "updateTenants"])]
    /\ UNCHANGED <<memToken, tokenFile, tenantId, envTenant, plConfigured, nowSec,
                   issued, boot, pure>>

\* the webhook's updateTenants answered, as it would be if the handler took the
\* first tenant of the list whatever the environment names
WebhookTenantsResp_firstTenant(r) ==
    /\ req[r].pc = "wtenants"
    /\ \/ req' = [req EXCEPT ![r] = Done(@, WebhookError)]
       \/ \E conns \in TenantLists :
             LET first == IF Len(conns) > 0 THEN Get(conns[1], "tenantId") ELSE Undefined
                 tid == first
             IN  req' = [req EXCEPT ![r] =
                           IF ~Truthy(tid)
                           THEN Done([@ EXCEPT !.conns = conns], WebhookError)
                           ELSE WebhookLoop([@ EXCEPT !.conns = conns, !.tid = tid], 1)]
    /\ UNCHANGED <<memToken, tokenFile, tenantId, envTenant, plConfigured, nowSec,
                   issued, boot, pure>>

\* the vendor answers the webhook's updateTenants; the handler picks its tenant
\* and runs the loop to the first getInvoice
WebhookTenantsResp(r) ==
    /\ req[r].pc = "wtenants"
    /\ \/ req' = [req EXCEPT ![r] = Done(@, WebhookError)]
       \/ \E conns \in TenantLists :
             LET first == IF Len(conns) > 0 THEN Get(conns[1], "tenantId") ELSE Undefined
                 tid == Or(envTenant, first)
             IN  req' = [req EXCEPT ![r] =
                           IF ~Truthy(tid)
                           THEN Done([@ EXCEPT !.conns = conns], WebhookError)
                           ELSE WebhookLoop([@ EXCEPT !.conns = conns, !.tid = tid], 1)]
    /\ UNCHANGED <<memToken, tokenFile, tenantId, envTenant, plConfigured, nowSec,
                   issued, boot, pure>>

InvoiceReply(status, ref) ==
    MkObj(<< <<"status", status>>, <<"reference", ref>> >>)

RefInputs ==
    {Absent, Str(<<"W", " ", "[", "6", "2", "]">>), Str(<<"[", "6", "3", "]">>),
     Str(<<"W", "1">>), Str(<<"[", "x", "]">>)}

\* what getInvoice answers in body.invoices
FetchReplies ==
    {<<>>, <<InvoiceReply(AUTHORISED, Str(<<"[", "6", "3", "]">>))>>}
        \cup {<<InvoiceReply(PAID, ref)>> : ref \in RefInputs}

\* the vendor answers getInvoice for event idx; a paid invoice with an order
\* number in its reference leads to updatePrintlogicOrderStatus
FetchResp(r) ==
    /\ req[r].pc = "fetch"
    /\ \/ req' = [req EXCEPT ![r] =
                    Done(Logged(@, [op |-> "getInvoice.error", ev |-> @.idx]), WebhookError)]
       \/ \E invoices \in FetchReplies :
             LET q == req[r]
                 invoice == IF Len(invoices) > 0 THEN invoices[1] ELSE Undefined
                 plOrderNumber == extractOrderNumberFromReference(Get(invoice, "reference"))
                 q1 == Logged(q, [op |-> "getInvoice.ok", ev |-> q.idx, invoice |-> invoice])
             IN  req' = [req EXCEPT ![r] =
                           IF ~Truthy(invoice) THEN WebhookLoop(q1, q.idx + 1)
                           ELSE IF Get(invoice, "status") /= PAID THEN WebhookLoop(q1, q.idx + 1)
                           ELSE IF ~Truthy(plOrderNumber) THEN WebhookLoop(q1, q.idx + 1)
                           ELSE IF ~plConfigured
                           THEN Done(Logged(q1, [op |-> "plUpdate.error", ev |-> q.idx]),
                                     WebhookError)
                           ELSE Logged([q1 EXCEPT !.pc = "plupdate"],
                                       [op |-> "plUpdate", ev |-> q.idx,
                                        order_number |-> ToStr(plOrderNumber),
                                        status |-> PrePress])]
    /\ UNCHANGED <<memToken, tokenFile, tenantId, envTenant, plConfigured, nowSec,
                   issued, boot, pure>>

\* what the order-management system answers in resp.data
PlReplies ==
    {Undefined, EmptyObj,
     Obj(<< <<"result", OkText>> >>),
     Obj(<< <<"status", OkText>> >>),
     Obj(<< <<"result", Str(<<"e", "r", "r">>)>>, <<"status", OkText>> >>),
     Obj(<< <<"result", Str(<<"e", "r", "r">>)>> >>)}

\* throw new Error(`PrintLogic update_order_status failed: ...`)
PlUpdateFailed == [t |-> "error"]

\* updatePrintlogicOrderStatus: the answer is a success
PlOk(respData) ==
    LET data == Or(respData, EmptyObj)
    IN  Nullish(Get(data, "result"), Get(data, "status")) = OkText

\* the order-management system answers the status update of event idx
PlResp(r) ==
    /\ req[r].pc = "plupdate"
    /\ \/ req' = [req EXCEPT ![r] =
                    Done(Logged(@, [op |-> "plUpdate.error", ev |-> @.idx]), WebhookError)]
       \/ \E data \in PlReplies :
             LET q == req[r]
             IN  req' = [req EXCEPT ![r] =
                           IF PlOk(data)
                           THEN WebhookLoop(Logged(q, [op |-> "plUpdate.ok", ev |-> q.idx]),
                                            q.idx + 1)
                           ELSE Done(Logged(q, [op |-> "plUpdate.error", ev |-> q.idx]),
                                     WebhookError)]
    /\ UNCHANGED <<memToken, tokenFile, tenantId, envTenant, plConfigured, nowSec,
                   issued, boot, pure>>

-----------------------------------------------------------------------------
(* xeroClient.js: initFromSavedToken; xero-bridge.js: the OAuth callback *)

\* initFromSavedToken, to its updateTenants call
BootLoad ==
    /\ boot = "start"
    /\ IF tokenFile.t /= "json"
       THEN boot' = "done" /\ UNCHANGED memToken
       ELSE /\ memToken' = tokenFile.v
            /\ boot' = IF isTokenExpiredLocal(tokenFile.v, nowSec) THEN "done" ELSE "tenants"
    /\ UNCHANGED <<tokenFile, tenantId, envTenant, plConfigured, nowSec, issued, req, pure>>

\* the vendor answers updateTenants of initFromSavedToken (an error is an
\* empty list)
BootTenants ==
    /\ boot = "tenants"
    /\ \E connections \in TenantLists :
          tenantId' = IF Len(connections) > 0 THEN Get(connections[1], "tenantId")
                      ELSE tenantId
    /\ boot' = "done"
    /\ UNCHANGED <<memToken, tokenFile, envTenant, plConfigured, nowSec, issued, req, pure>>

\* GET /xero/callback: the consent flow hands the client a new token set,
\* which the handler writes to the token file
Callback ==
    /\ issued < MaxIssued
    /\ LET tokenSet == With(TokenResponse(issued + 1, NumV(FromInt(DefaultLifetime))),
                            "expires_at", NumV(FromInt(nowSec + DefaultLifetime)))
       IN  /\ memToken' = tokenSet
           /\ tokenFile' = saveToken(tokenSet)
    /\ issued' = issued + 1
    /\ UNCHANGED <<tenantId, envTenant, plConfigured, nowSec, boot, req, pure>>

\* time passes
Tick ==
    /\ nowSec < EndSec
    /\ nowSec' = nowSec + DefaultLifetime
    /\ UNCHANGED <<memToken, tokenFile, tenantId, envTenant, plConfigured, issued,
                   boot, req, pure>>

-----------------------------------------------------------------------------
(* The pure helpers applied to bounded inputs *)

RateChars == {"0", "2", "5", ".", "-", " ", "e", "%"}

RateInputs ==
    {Undefined, Null, Bool(TRUE), Bool(FALSE)}
        \cup {Str(s) : s \in SeqsUpTo(RateChars, MaxRateLen)}
        \cup {NumV(FromInt(i)) : i \in {0, 5, 7, 20}}

ItemInputs ==
    {MkObj(<< <<"title", Str(<<"A">>)>>, <<"quantity", q>>, <<"price", p>>, <<"vat", v>> >>) :
        q \in {Absent, Str(<<"0">>), Str(<<"2">>)},
        p \in {Absent, Str(<<"1", ".", "5">>), Str(<<"x">>)},
        v \in {Absent, Str(<<>>), Str(<<"5">>), Str(<<"x">>)}}

ItemsObject(items) == Obj([i \in 1..Len(items) |-> <<DigitChar(i), items[i]>>])

LinePayloads ==
    {MkObj(<< <<"order_detail", MkObj(<< <<"items", ItemsObject(items)>> >>)>> >>) :
        items \in SeqsUpTo(ItemInputs, MaxItems)}
        \cup {EmptyObj,
              MkObj(<< <<"order_detail", MkObj(<< <<"items", Str(<<"x">>)>> >>)>> >>)}

\* a line as a caller writes it in an explicit list
CustomLine == Obj(<< <<"description", Str(<<"L">>)>>, <<"unitAmount", NumV(FromInt(7))>> >>)

\* an object literal, absent when it has no field
Sub(pairs) == IF MkObj(pairs) = EmptyObj THEN Absent ELSE MkObj(pairs)

\* a payload of POST /create-invoice as buildInvoiceModel reads it
Payload(order_number, order_po, n1, n2, n3, n4, lineItems, items) ==
    MkObj(<< <<"order_number", order_number>>,
             <<"order_po", order_po>>,
             <<"pl_order", Sub(<< <<"customer_name", n1>>, <<"order_contact", n3>> >>)>>,
             <<"order_detail", Sub(<< <<"customer_name", n2>>, <<"order_contact", n4>>,
                                      <<"items", items>> >>)>>,
             <<"lineItems", lineItems>> >>)

InvoicePayloads ==
    {Payload(on, po, n1, n2, n3, n4, Absent, Absent) :
        on \in {Absent, Str(<<>>), Str(<<"6", "2">>), NumV(FromInt(62))},
        po \in {Absent, Str(<<>>), Str(<<"W", "E", "B", "-", "1">>), Str(<<"A", "[", "1", "]">>)},
        n1 \in {Absent, Str(<<>>), Str(<<"N", "1">>)},
        n2 \in {Absent, Str(<<"N", "2">>)},
        n3 \in {Absent, Str(<<"N", "3">>)},
        n4 \in {Absent, Str(<<"N", "4">>)}}
    \cup
    {Payload(Str(<<"6", "2">>), Absent, Absent, Absent, Absent, Absent, li, items) :
        li \in {Absent, Arr(<<>>), Arr(<<CustomLine>>), Arr(<<CustomLine, CustomLine>>)},
        items \in {Absent, Null, Str(<<"x">>),
                   ItemsObject(<<MkObj(<< <<"title", Str(<<"A">>)>>,
                                          <<"price", Str(<<"1", ".", "5">>)>> >>)>>)}}

ToBoolInputs ==
    {Undefined, Null, Bool(TRUE), Bool(FALSE), NumV(FromInt(1)), NumV(FromInt(0)),
     Str(<<>>), Str(<<"t", "r", "u", "e">>), Str(<<"T", "R", "U", "E">>),
     Str(<<"T", "r", "u", "e">>), Str(<<"1">>), Str(<<"y", "e", "s">>),
     Str(<<"Y", "E", "S">>), Str(<<" ", "Y", "e", "s", " ">>), Str(<<"n", "o">>),
     Str(<<"0">>), Str(<<"y">>), Str(<<"o", "n">>), Str(<<"t", "r", "u", "e", "1">>)}

FlagInputs ==
    {Absent, Null, Bool(TRUE), Bool(FALSE), Str(<<"Y", "E", "S">>), Str(<<"n", "o">>),
     NumV(FromInt(1))}

ContextPayloads ==
    {MkObj(<< <<"template", tpl>>,
              <<"order_po", po>>,
              <<"pl_order", Sub(<< <<"customer_category", cat>> >>)>>,
              <<"markAsPaid", paid>>,
              <<"emailCustomer", email>> >>) :
        tpl \in {Absent, Str(<<>>), Edinburgh_Banners, Str(<<"S", "D", "K">>)},
        po \in {Absent, Str(<<"W", "E", "B", "-", "1">>)},
        cat \in {Absent, Edinburgh_Banners, Str(<<"G", "i", "c", "l", "e", "e">>)},
        paid \in FlagInputs,
        email \in FlagInputs}

BrandInputs == {Undefined, Str(<<"E", "B">>)}

PureIdle == [op |-> "none", arg |-> Undefined, done |-> FALSE, out |-> Undefined]

PureInputs ==
    {[op |-> "mapVatToTaxType", arg |-> v, done |-> FALSE, out |-> Undefined] :
        v \in RateInputs}
    \cup {[op |-> "buildLineItems", arg |-> [payload |-> pl, brand |-> b],
           done |-> FALSE, out |-> Undefined] :
        pl \in LinePayloads, b \in BrandInputs}
    \cup {[op |-> "buildInvoiceModel", arg |-> pl, done |-> FALSE, out |-> Undefined] :
        pl \in InvoicePayloads}
    \cup {[op |-> "buildInvoicePayload",
           arg |-> With(pl, "xeroLineItems", Arr(<<CustomLine>>)),
           done |-> FALSE, out |-> Undefined] :
        pl \in InvoicePayloads}
    \cup {[op |-> "toBool", arg |-> v, done |-> FALSE, out |-> Undefined] :
        v \in ToBoolInputs}
    \cup {[op |-> "deriveContext", arg |-> pl, done |-> FALSE, out |-> Undefined] :
        pl \in ContextPayloads}
    \cup {[op |-> "extractOrderNumberFromReference", arg |-> pl, done |-> FALSE,
           out |-> Undefined] :
        pl \in InvoicePayloads}
    \cup {[op |-> "updatePrintlogicOrderStatus", arg |-> data, done |-> FALSE,
           out |-> Undefined] :
        data \in PlReplies}

ApplyMapVatToTaxType ==
    /\ pure.op = "mapVatToTaxType" /\ ~pure.done
    /\ pure' = [pure EXCEPT !.done = TRUE, !.out = mapVatToTaxType(pure.arg)]
    /\ UNCHANGED serverVars

ApplyBuildLineItems ==
    /\ pure.op = "buildLineItems" /\ ~pure.done
    /\ pure' = [pure EXCEPT !.done = TRUE,
                            !.out = Arr(buildLineItems(pure.arg.payload, pure.arg.brand))]
    /\ UNCHANGED serverVars

\* createInvoiceFromPlPayload: the invoice built from a payload and its context
ApplyBuildInvoiceModel ==
    /\ pure.op = "buildInvoiceModel" /\ ~pure.done
    /\ pure' = [pure EXCEPT !.done = TRUE,
                            !.out = buildInvoiceModel(pure.arg, deriveContext(pure.arg))]
    /\ UNCHANGED serverVars

\* the legacy builder applied to the fields of a payload and given lines
ApplyBuildInvoicePayload ==
    /\ pure.op = "buildInvoicePayload" /\ ~pure.done
    /\ pure' = [pure EXCEPT !.done = TRUE, !.out = buildInvoicePayload(pure.arg)]
    /\ UNCHANGED serverVars

ApplyToBool ==
    /\ pure.op = "toBool" /\ ~pure.done
    /\ pure' = [pure EXCEPT !.done = TRUE, !.out = Bool(toBool(pure.arg))]
    /\ UNCHANGED serverVars

ApplyDeriveContext ==
    /\ pure.op = "deriveContext" /\ ~pure.done
    /\ pure' = [pure EXCEPT !.done = TRUE, !.out = deriveContext(pure.arg)]
    /\ UNCHANGED serverVars

\* updatePrintlogicOrderStatus from the answer on: it returns the data or throws
ApplyUpdatePrintlogicOrderStatus ==
    /\ pure.op = "updatePrintlogicOrderStatus" /\ ~pure.done
    /\ pure' = [pure EXCEPT !.done = TRUE,
                            !.out = IF PlOk(pure.arg) THEN Or(pure.arg, EmptyObj)
                                    ELSE PlUpdateFailed]
    /\ UNCHANGED serverVars

\* the webhook's extraction applied to the reference that buildInvoiceModel
\* gives the invoice of a payload
ApplyExtractOrderNumberFromReference ==
    /\ pure.op = "extractOrderNumberFromReference" /\ ~pure.done
    /\ pure' = [pure EXCEPT !.done = TRUE,
                            !.out = extractOrderNumberFromReference(reference(pure.arg))]
    /\ UNCHANGED serverVars

PureNext ==
    \/ ApplyMapVatToTaxType
    \/ ApplyBuildLineItems
    \/ ApplyBuildInvoiceModel
    \/ ApplyBuildInvoicePayload
    \/ ApplyToBool
    \/ ApplyDeriveContext
    \/ ApplyExtractOrderNumberFromReference
    \/ ApplyUpdatePrintlogicOrderStatus

PureInit ==
    /\ pure \in PureInputs
    /\ memToken = Undefined
    /\ tokenFile = NoFile
    /\ tenantId = Null
    /\ envTenant = Null
    /\ plConfigured = TRUE
    /\ nowSec = StartSec
    /\ issued = 0
    /\ boot = "start"
    /\ req = [r \in {"a"} |-> IdleReq]

PureSpec == PureInit /\ [][PureNext]_vars

-----------------------------------------------------------------------------
(* The server *)

Init ==
    /\ memToken = Undefined
    /\ tokenFile \in InitFiles
    /\ envTenant \in {Null, T1}
    /\ tenantId = Or(envTenant, Null)
    /\ plConfigured = TRUE
    /\ nowSec = StartSec
    /\ issued = 0
    /\ boot = "start"
    /\ req = [r \in {"a"} |-> IdleReq]
    /\ pure = PureIdle

Next ==
    \/ BootLoad
    \/ BootTenants
    \/ Callback
    \/ Tick
    \/ \E r \in Reqs :
          \/ StartInvoice(r, InvoiceBodies)
          \/ RefreshResp(r)
          \/ TenantsResp(r)
          \/ CreateResp(r)
          \/ PayResp(r)
          \/ EmailResp(r)
          \/ StartWebhook(r, WebhookBodies(1))
          \/ WebhookTenantsResp(r)
          \/ FetchResp(r)
          \/ PlResp(r)
          \/ Finish(r)

Spec == Init /\ [][Next]_vars

-----------------------------------------------------------------------------
(* The payment webhook alone, with notifications of up to MaxEvents events *)
(* and with the order-management system configured or not.  The handler   *)
(* reads and writes none of the token state.                              *)

WebhookInit ==
    /\ memToken = Undefined
    /\ tokenFile = NoFile
    /\ envTenant \in {Null, T1}
    /\ tenantId = Or(envTenant, Null)
    /\ plConfigured \in BOOLEAN
    /\ nowSec = StartSec
    /\ issued = 0
    /\ boot = "done"
    /\ req = [r \in {"a"} |-> IdleReq]
    /\ pure = PureIdle

WebhookNext ==
    \E r \in Reqs :
       \/ StartWebhook(r, WebhookBodies(MaxEvents))
       \/ WebhookTenantsResp(r)
       \/ FetchResp(r)
       \/ PlResp(r)
       \/ Finish(r)

WebhookSpec == WebhookInit /\ [][WebhookNext]_vars

-----------------------------------------------------------------------------
(* Two invoice requests at a time: the handlers interleave at their network *)
(* calls.  The process has started, the token file holds a token set, and   *)
(* the bodies ask for no payment and no email.                             *)

RaceFiles == {saveToken(StoredToken(StartSec - 1)),
              saveToken(StoredToken(StartSec + DefaultLifetime))}

RaceBodies == {EmptyObj}

RaceInit ==
    /\ memToken = Undefined
    /\ tokenFile \in RaceFiles
    /\ envTenant = Null
    /\ tenantId = Null
    /\ plConfigured = TRUE
    /\ nowSec = StartSec
    /\ issued = 0
    /\ boot = "done"
    /\ req = [r \in {"a", "b"} |-> IdleReq]
    /\ pure = PureIdle

RaceNext ==
    \E r \in Reqs :
       \/ StartInvoice(r, RaceBodies)
       \/ RefreshResp(r)
       \/ TenantsResp(r)
       \/ CreateResp(r)
       \/ Finish(r)

RaceSpec == RaceInit /\ [][RaceNext]_vars

-----------------------------------------------------------------------------
(* The tax mapper and the line-item builder, under PureSpec *)

\* a rate text that parseFloat reads as a number
NumericText(v) == v.t = "string" /\ ~isNaN(parseFloat(v))

\* the items of the payload the builder was applied to
ItemsOf(arg) == Values(Get(Get(arg.payload, "order_detail"), "items"))

\* an item that has no VAT-rate field
NoVat(item) == ~HasKey(item, "vat")

\* C9: applied to a numeric rate text, mapVatToTaxType answers the exempt code
\* when the parsed rate is 0, the reduced code when it is 5, and the standard
\* code when it is 20 or any other number.
C9_NumericRates ==
    (pure.op = "mapVatToTaxType" /\ pure.done /\ NumericText(pure.arg)) =>
        LET rate == parseFloat(pure.arg)
        IN  /\ rate = FromInt(0) => pure.out = EXEMPTOUTPUT
            /\ rate = FromInt(5) => pure.out = REDUCED
            /\ rate = FromInt(20) => pure.out = OUTPUT2
            /\ rate \notin {FromInt(0), FromInt(5), FromInt(20)} => pure.out = OUTPUT2

\* the mapper has answered the reduced code for the text "5.0"
C9_Witness ==
    /\ pure.op = "mapVatToTaxType" /\ pure.done
    /\ pure.arg = Str(<<"5", ".", "0">>)
    /\ pure.out = REDUCED

\* a rate that is missing: absent, null or the empty text
MissingRate(v) == v \in {Undefined, Null, Str(<<>>)}

\* a rate text that parseFloat cannot read
UnparsableText(v) == v.t = "string" /\ v.s /= <<>> /\ isNaN(parseFloat(v))

\* C10 as stated: a missing rate and an unparsable rate text both map to the
\* standard code, and a line built from an item without a VAT-rate field
\* carries the standard tax type.
C10_MissingIsStandard ==
    /\ (pure.op = "mapVatToTaxType" /\ pure.done
            /\ (MissingRate(pure.arg) \/ UnparsableText(pure.arg)))
          => pure.out = OUTPUT2
    /\ (pure.op = "buildLineItems" /\ pure.done) =>
          \A i \in 1..Len(ItemsOf(pure.arg)) :
              NoVat(ItemsOf(pure.arg)[i]) => Get(pure.out.a[i], "taxType") = OUTPUT2

\* C10, amended: a missing rate (absent, null or empty text) maps to the exempt
\* code, because it is read as "0"; only an unparsable rate text maps to the
\* standard code; and a line built from an item without a VAT-rate field
\* carries the exempt tax type.
C10_MissingIsExempt ==
    /\ (pure.op = "mapVatToTaxType" /\ pure.done) =>
          /\ MissingRate(pure.arg) => pure.out = EXEMPTOUTPUT
          /\ UnparsableText(pure.arg) => pure.out = OUTPUT2
    /\ (pure.op = "buildLineItems" /\ pure.done) =>
          /\ Len(pure.out.a) = Len(ItemsOf(pure.arg))
          /\ \A i \in 1..Len(ItemsOf(pure.arg)) :
                NoVat(ItemsOf(pure.arg)[i])
                    => Get(pure.out.a[i], "taxType") = EXEMPTOUTPUT

\* the builder has built an exempt line from an item without a VAT-rate field,
\* next to a reduced-rate line
C10_Witness ==
    /\ pure.op = "buildLineItems" /\ pure.done
    /\ Len(ItemsOf(pure.arg)) = 2
    /\ NoVat(ItemsOf(pure.arg)[1])
    /\ Get(pure.out.a[1], "taxType") = EXEMPTOUTPUT
    /\ Get(pure.out.a[2], "taxType") = REDUCED

-----------------------------------------------------------------------------
(* The token lifecycle and the invoice path, under Spec *)

\* how many calls of one kind a request has made
Count(log, op) == Cardinality({i \in DOMAIN log : log[i].op = op})

\* the refresh call of the request has been answered with a token
Refreshed(q) == q.pc = "tenants" \/ q.ensure \in {"ok", "TenantsFailed", "NoTenant"}

\* C1: a call of ensureXeroReady that finds a usable refresh credential issues
\* exactly one refresh call, expired or not, and writes the token file exactly
\* once when that call succeeds (and not at all when it does not).
C1_OneRefreshPerCall ==
    \A r \in Reqs :
        (req[r].kind = "invoice" /\ req[r].ensure \notin {"none", "NotAuthenticated"}) =>
            /\ Count(req[r].log, "refresh") = 1
            /\ Count(req[r].log, "saveToken") = IF Refreshed(req[r]) THEN 1 ELSE 0
            /\ Refreshed(req[r]) => req[r].tokenSet.t = "object"

\* the second of two calls in sequence has succeeded: it refreshed the
\* credential the first call had obtained from the stored one, before that
\* credential's expiry
C1_Witness ==
    \E r \in Reqs :
        /\ req[r].ensure = "ok"
        /\ Get(req[r].tokenSet, "id_token") = Str(<<"i", "0">>)
        /\ Get(req[r].tokenSet, "refresh_token") = RefreshCred(2)
        /\ Count(req[r].log, "saveToken") = 1
        /\ \E i \in DOMAIN req[r].log :
              /\ req[r].log[i].op = "refresh"
              /\ req[r].log[i].refresh_token = RefreshCred(1)
              /\ ~req[r].log[i].expired

\* a token set that holds a non-empty string as its refresh credential
Usable(tokenSet) ==
    /\ tokenSet.t = "object"
    /\ \E i \in 1..Len(tokenSet.p) :
          /\ tokenSet.p[i][1] = "refresh_token"
          /\ tokenSet.p[i][2].t = "string"
          /\ tokenSet.p[i][2].s /= <<>>

\* C2: ensureXeroReady fails with NotAuthenticated exactly when neither the
\* token set in memory nor the token file holds a non-empty string refresh
\* credential; it looks for the file only when the one in memory lacks it; and
\* on this failure it issues no refresh and leaves the token file and the
\* tenant id as they were.
C2_NotAuthenticated ==
    [][\A r \in Reqs :
          (req[r].kind = "idle" /\ req'[r].kind = "invoice" /\ req'[r].ensure /= "none") =>
              /\ (req'[r].ensure = "NotAuthenticated")
                    <=> (~Usable(memToken) /\ ~(tokenFile.t = "json" /\ Usable(tokenFile.v)))
              /\ (Count(req'[r].log, "existsSync") = 1) <=> ~Usable(memToken)
              /\ (req'[r].ensure = "NotAuthenticated") =>
                    /\ Count(req'[r].log, "refresh") = 0
                    /\ tokenFile' = tokenFile
                    /\ tenantId' = tenantId
                    /\ req'[r].result = RouteError(NotAuthenticated)]_vars

\* a request has failed with NotAuthenticated over a token file whose refresh
\* credential is the empty string
C2_Witness ==
    \E r \in Reqs :
        /\ req[r].ensure = "NotAuthenticated"
        /\ tokenFile.t = "json"
        /\ Get(tokenFile.v, "refresh_token") = Str(<<>>)
        /\ Count(req[r].log, "existsSync") = 1

\* C5: once createInvoices has succeeded, the request ends with a success
\* result that carries the created invoice, whether the payment call or the
\* email call failed or not; and a failed payment call is followed by the
\* email call when the email was asked for.
C5_FollowUpsDoNotFail ==
    \A r \in Reqs :
        (req[r].kind = "invoice" /\ Count(req[r].log, "createInvoices.ok") = 1) =>
            /\ req[r].pc = "done" =>
                  /\ req[r].result.http = 200
                  /\ req[r].result.result.success
                  /\ req[r].result.result.invoice = req[r].created
            /\ (/\ Count(req[r].log, "createPayments.error") = 1
                /\ Get(req[r].context, "emailCustomerFlag") = Bool(TRUE))
                  => Count(req[r].log, "emailInvoice") = 1

\* a request has ended in success although both the payment call and the
\* email call failed
C5_Witness ==
    \E r \in Reqs :
        /\ req[r].kind = "invoice" /\ req[r].pc = "done"
        /\ Count(req[r].log, "createPayments.error") = 1
        /\ Count(req[r].log, "emailInvoice.error") = 1
        /\ req[r].result.http = 200 /\ req[r].result.result.success
        /\ req[r].result.result.invoice = CreatedInvoice

\* the message of each way ensureXeroReady fails
EnsureMessage ==
    [NotAuthenticated |-> NotAuthenticated, RefreshFailed |-> RefreshFailed,
     TenantsFailed |-> TenantsFailed, NoTenant |-> NoTenant]

\* C6: an invoice request in which ensureXeroReady fails ends in failure with
\* the message of that failure, having issued no createInvoices, createPayments
\* or emailInvoice call; and no request refreshes more than once.
C6_EnsureFailureAborts ==
    \A r \in Reqs :
        /\ Count(req[r].log, "refresh") <= 1
        /\ (req[r].kind = "invoice" /\ req[r].ensure \in DOMAIN EnsureMessage) =>
              /\ req[r].pc = "done"
              /\ req[r].result = [http |-> 500, ok |-> FALSE,
                                  error |-> EnsureMessage[req[r].ensure]]
              /\ Count(req[r].log, "createInvoices") = 0
              /\ Count(req[r].log, "createPayments") = 0
              /\ Count(req[r].log, "emailInvoice") = 0

\* a request has failed with NoTenant after its one refresh
C6_Witness ==
    \E r \in Reqs :
        /\ req[r].ensure = "NoTenant"
        /\ req[r].pc = "done"
        /\ Count(req[r].log, "refresh") = 1

-----------------------------------------------------------------------------
(* The tenant of the vendor calls, under Spec *)

\* the calls of the accounting API that name a tenant
AccountingCalls == {"createInvoices", "createPayments", "emailInvoice", "getInvoice"}

\* the tenant id of the first entry of the list the request resolved
FirstResolved(q) == Get(q.conns[1], "tenantId")

C7_EnsureBeforeFetch ==
    \A r \in Reqs :
        (req[r].kind = "webhook" /\ Count(req[r].log, "getInvoice") > 0) =>
            /\ req[r].ensure = "ok"
            /\ Count(req[r].log, "refresh") = 1

-----------------------------------------------------------------------------
(* The payment webhook, under WebhookSpec *)

\* the calls whose failure the handler's catch block answers
ErrorOps == {"getInvoice.error", "plUpdate.error"}

\* C4 as stated: after a failure while one event is processed (the fetch
\* fails, or the status update throws or is answered with something other
\* than ok) every later event of the notification is still processed: when
\* the request ends, the invoice of each later event that passes the filter
\* has been fetched.
C4_FailureDoesNotAbort ==
    \A r \in Reqs :
        (req[r].kind = "webhook" /\ req[r].pc = "done") =>
            \A i \in DOMAIN req[r].log :
                req[r].log[i].op \in ErrorOps =>
                    \A j \in (req[r].log[i].ev + 1)..Len(req[r].events) :
                        ~Skipped(req[r].events[j]) =>
                            \E k \in DOMAIN req[r].log :
                                req[r].log[k].op = "getInvoice" /\ req[r].log[k].ev = j

\* a reference in which a bracketed number stands at a..b
BracketedAt(s, a, b) ==
    /\ a + 1 < b
    /\ s[a] = "[" /\ s[b] = "]"
    /\ \A k \in (a + 1)..(b - 1) : s[k] \in Digits

HasBracketedNumber(ref) ==
    /\ ref.t = "string"
    /\ \E a, b \in 1..Len(ref.s) : BracketedAt(ref.s, a, b)

\* the invoice the request fetched for event j, if it did
FetchedFor(q, j) ==
    {q.log[i].invoice : i \in {k \in DOMAIN q.log :
                                   q.log[k].op = "getInvoice.ok" /\ q.log[k].ev = j}}

\* C8: the webhook issues a status update for an event only if the event is
\* an INVOICE UPDATE with a resource id that is not the placeholder, the
\* fetched invoice is PAID and its reference holds a bracketed number, which
\* is the order number sent; it fetches no invoice for an event filtered out
\* by category, type, missing id or placeholder id; and an event whose
\* reference holds no bracketed number gets no status update and does not
\* fail the request.
C8_UpdateOnlyForPaidInvoices ==
    \A r \in Reqs : req[r].kind = "webhook" =>
        LET q == req[r] IN
        /\ \A i \in DOMAIN q.log :
              q.log[i].op \in {"getInvoice", "plUpdate"} =>
                  LET event == q.events[q.log[i].ev]
                  IN  /\ Get(event, "eventCategory") = INVOICE
                      /\ Get(event, "eventType") = UPDATE
                      /\ HasKey(event, "resourceId")
                      /\ Get(event, "resourceId") /= PLACEHOLDER
        /\ \A i \in DOMAIN q.log :
              q.log[i].op = "plUpdate" =>
                  \E invoice \in FetchedFor(q, q.log[i].ev) :
                      /\ Get(invoice, "status") = PAID
                      /\ HasBracketedNumber(Get(invoice, "reference"))
                      /\ \E a, b \in 1..Len(Get(invoice, "reference").s) :
                            /\ BracketedAt(Get(invoice, "reference").s, a, b)
                            /\ q.log[i].order_number
                                  = SubSeq(Get(invoice, "reference").s, a + 1, b - 1)
        /\ \A j \in 1..Len(q.events) : \A invoice \in FetchedFor(q, j) :
              ~HasBracketedNumber(Get(invoice, "reference")) =>
                  /\ \A i \in DOMAIN q.log :
                        q.log[i].op \in {"plUpdate", "plUpdate.error"} => q.log[i].ev /= j
                  /\ (q.idx = j) => q.pc /= "done"

\* the webhook has skipped a paid invoice whose reference holds no bracketed
\* number and then sent the order number of the next event's invoice
C8_Witness ==
    \E r \in Reqs :
        /\ req[r].kind = "webhook"
        /\ InvoiceReply(PAID, Str(<<"W", "1">>)) \in FetchedFor(req[r], 1)
        /\ \E i \in DOMAIN req[r].log :
              /\ req[r].log[i].op = "plUpdate"
              /\ req[r].log[i].ev = 2
              /\ req[r].log[i].order_number = <<"6", "2">>

-----------------------------------------------------------------------------
(* The line-item builder, under PureSpec *)

\* the builder was applied to a payload without an explicit line-item list
\* whose item collection is a mapping
FromCollection(arg) ==
    /\ ~HasKey(arg.payload, "lineItems")
    /\ Get(Get(arg.payload, "order_detail"), "items").t = "object"

\* the price of an item as a number: 0 when the field is missing or is not
\* numeric text
PriceOf(item) ==
    IF ~HasKey(item, "price") \/ isNaN(parseFloat(Get(item, "price")))
    THEN FromInt(0)
    ELSE parseFloat(Get(item, "price"))

\* C11: from an item collection buildLineItems emits exactly one line per key,
\* in key order, whatever the quantities (0 included); each line has quantity
\* 1 and as unit amount the parsed price of its item (0 when the item has no
\* numeric price).
C11_OneLinePerItem ==
    (pure.op = "buildLineItems" /\ pure.done /\ FromCollection(pure.arg)) =>
        /\ Len(pure.out.a) = Len(ItemsOf(pure.arg))
        /\ \A i \in 1..Len(ItemsOf(pure.arg)) :
              /\ Get(pure.out.a[i], "quantity") = NumV(FromInt(1))
              /\ Get(pure.out.a[i], "unitAmount") = NumV(PriceOf(ItemsOf(pure.arg)[i]))

\* the builder has emitted a line of quantity 1 and amount 1.5 for an item of
\* quantity 0, before the line of an item of quantity 2 without a price
C11_Witness ==
    /\ pure.op = "buildLineItems" /\ pure.done /\ FromCollection(pure.arg)
    /\ Len(ItemsOf(pure.arg)) = 2
    /\ Get(ItemsOf(pure.arg)[1], "quantity") = Str(<<"0">>)
    /\ Get(ItemsOf(pure.arg)[2], "quantity") = Str(<<"2">>)
    /\ ~HasKey(ItemsOf(pure.arg)[2], "price")
    /\ Len(pure.out.a) = 2
    /\ Get(pure.out.a[1], "quantity") = NumV(FromInt(1))
    /\ Get(pure.out.a[1], "unitAmount") = NumV(parseFloatStr(<<"1", ".", "5">>))
    /\ Get(pure.out.a[2], "unitAmount") = NumV(FromInt(0))

-----------------------------------------------------------------------------
(* C12: the explicit line-item list *)

\* the payload carries a line-item list of its own, with at least one line
ExplicitList(payload) ==
    Get(payload, "lineItems").t = "array" /\ Len(Get(payload, "lineItems").a) > 0

\* the payload's item collection is absent or is not a mapping
NoCollection(payload) ==
    Get(Get(payload, "order_detail"), "items").t \notin {"object", "array"}

\* C12: an explicit non-empty line-item list of the payload is the invoice's
\* line-item list, line for line and field for field, whether or not the order
\* also has an item collection; with no such list and no item collection that
\* is a mapping, the line-item list is empty, both in the invoice and as the
\* result of buildLineItems itself.
C12_ExplicitListVerbatim ==
    /\ (pure.op = "buildInvoiceModel" /\ pure.done) =>
           /\ ExplicitList(pure.arg) =>
                  Get(pure.out, "lineItems") = Get(pure.arg, "lineItems")
           /\ (~ExplicitList(pure.arg) /\ NoCollection(pure.arg)) =>
                  Get(pure.out, "lineItems") = Arr(<<>>)
    /\ (pure.op = "buildLineItems" /\ pure.done /\ NoCollection(pure.arg.payload)) =>
           pure.out = Arr(<<>>)

\* an invoice was built from a payload with two explicit lines and an item
\* collection, and it carries the two lines
C12_Witness ==
    /\ pure.op = "buildInvoiceModel" /\ pure.done
    /\ Get(pure.arg, "lineItems") = Arr(<<CustomLine, CustomLine>>)
    /\ Get(Get(pure.arg, "order_detail"), "items").t = "object"
    /\ Get(pure.out, "lineItems") = Arr(<<CustomLine, CustomLine>>)

-----------------------------------------------------------------------------
(* C13: the coercion of the flags *)

TrueWords == {<<"t", "r", "u", "e">>, <<"1">>, <<"y", "e", "s">>}

\* the text s is the word w up to the case of its letters
SameIgnoringCase(s, w) ==
    /\ Len(s) = Len(w)
    /\ \A i \in 1..Len(w) :
          \/ s[i] = w[i]
          \/ \E k \in 1..26 : LowerCase[k] = w[i] /\ UpperCase[k] = s[i]

\* the text s is one of the words for true, up to the case of its letters
MatchesIgnoringCase(s) == \E w \in TrueWords : SameIgnoringCase(s, w)

\* the text s is one of the words for true, up to case, between white space
MatchesInWhiteSpace(s) ==
    \E i \in 0..Len(s), j \in 0..Len(s) :
        /\ i <= j
        /\ \A k \in 1..i : s[k] \in WhiteSpace
        /\ \A k \in (j + 1)..Len(s) : s[k] \in WhiteSpace
        /\ MatchesIgnoringCase(SubSeq(s, i + 1, j))

\* true for the boolean true and for text that is one of the words, up to
\* case; false for every other input
TrueAsStated(v) ==
    \/ v = Bool(TRUE)
    \/ v.t = "string" /\ MatchesIgnoringCase(v.s)

\* true for the boolean true, and for a text or a number whose written form
\* is one of the words, up to case and to white space around it
TrueAsCoded(v) ==
    \/ v = Bool(TRUE)
    \/ v.t \in {"string", "number"} /\ MatchesInWhiteSpace(ToStr(v))

\* C13 as stated: toBool is true for the boolean true and for text equal to
\* "true", "1" or "yes" ignoring case, and false for every other input, and
\* both flags of the context are this coercion of the payload's fields.
C13_OnlyTheWords ==
    /\ (pure.op = "toBool" /\ pure.done) => pure.out = Bool(TrueAsStated(pure.arg))
    /\ (pure.op = "deriveContext" /\ pure.done) =>
           /\ Get(pure.out, "markAsPaidFlag")
                = Bool(TrueAsStated(Get(pure.arg, "markAsPaid")))
           /\ Get(pure.out, "emailCustomerFlag")
                = Bool(TrueAsStated(Get(pure.arg, "emailCustomer")))

\* C13: toBool is true for the boolean true and for any text or number whose
\* written form, with the white space around it removed, equals "true", "1" or
\* "yes" ignoring case; it is false for every other input; both flags of the
\* context are this coercion of the payload's fields.
C13_WordsAfterTrimming ==
    /\ (pure.op = "toBool" /\ pure.done) => pure.out = Bool(TrueAsCoded(pure.arg))
    /\ (pure.op = "deriveContext" /\ pure.done) =>
           /\ Get(pure.out, "markAsPaidFlag")
                = Bool(TrueAsCoded(Get(pure.arg, "markAsPaid")))
           /\ Get(pure.out, "emailCustomerFlag")
                = Bool(TrueAsCoded(Get(pure.arg, "emailCustomer")))

\* toBool was applied to " Yes " and answered true
C13_Witness ==
    /\ pure.op = "toBool" /\ pure.done
    /\ pure.arg = Str(<<" ", "Y", "e", "s", " ">>)
    /\ pure.out = Bool(TRUE)

-----------------------------------------------------------------------------
(* C14: the reference of the invoice *)

\* the field is present: neither absent nor the empty text
Present(v) == v.t \in {"string", "number"} /\ v /= Str(<<>>)

\* the reference as the PO and the order number determine it
ReferenceFor(po, number) ==
    IF Present(po) /\ Present(number)
    THEN Str(ToStr(po) \o <<" ", "[">> \o ToStr(number) \o <<"]">>)
    ELSE IF Present(po) THEN Str(ToStr(po))
    ELSE IF Present(number) THEN Str(<<"[">> \o ToStr(number) \o <<"]">>)
    ELSE Str(<<>>)

\* the first invoice of the legacy builder's result
LegacyInvoice(out) == Get(out, "Invoices").a[1]

\* C14: the reference of the invoice is "<PO> [<order_number>]" when the PO and
\* the order number are both present, the PO alone when only the PO is
\* present, "[<order_number>]" when only the order number is present, and the
\* empty text when neither is; the legacy builder composes the same text.
C14_ReferenceComposition ==
    /\ (pure.op = "buildInvoiceModel" /\ pure.done) =>
           Get(pure.out, "reference")
             = ReferenceFor(Get(pure.arg, "order_po"), Get(pure.arg, "order_number"))
    /\ (pure.op = "buildInvoicePayload" /\ pure.done) =>
           Get(LegacyInvoice(pure.out), "reference")
             = ReferenceFor(Get(pure.arg, "order_po"), Get(pure.arg, "order_number"))

\* an invoice was built for PO "WEB-1" and order number 62 and its reference is
\* "WEB-1 [62]"
C14_Witness ==
    /\ pure.op = "buildInvoiceModel" /\ pure.done
    /\ Get(pure.arg, "order_po") = Str(<<"W", "E", "B", "-", "1">>)
    /\ Get(pure.arg, "order_number") = NumV(FromInt(62))
    /\ Get(pure.out, "reference") = Str(<<"W", "E", "B", "-", "1", " ", "[", "6", "2", "]">>)

-----------------------------------------------------------------------------
(* C15: the contact name of the invoice *)

\* the four candidate fields in their order
NameCandidates(payload) ==
    << Get(Get(payload, "pl_order"), "customer_name"),
       Get(Get(payload, "order_detail"), "customer_name"),
       Get(Get(payload, "pl_order"), "order_contact"),
       Get(Get(payload, "order_detail"), "order_contact") >>

\* the text s holds the text w
Contains(s, w) ==
    \E i \in 0..Len(s) : i + Len(w) <= Len(s) /\ SubSeq(s, i + 1, i + Len(w)) = w

\* C15 as stated: the contact name of the invoice is the first non-empty of
\* the four candidate fields, and when all four are empty it is a text built
\* from the order number.
C15_FirstOfFourElseOrderNumber ==
    (pure.op = "buildInvoiceModel" /\ pure.done) =>
        LET c == NameCandidates(pure.arg)
            name == Get(Get(pure.out, "contact"), "name")
        IN  IF \E i \in 1..4 : Present(c[i])
            THEN name = c[CHOOSE i \in 1..4 :
                              Present(c[i]) /\ \A j \in 1..(i - 1) : ~Present(c[j])]
            ELSE Present(Get(pure.arg, "order_number")) =>
                     /\ name.t = "string"
                     /\ Contains(name.s, ToStr(Get(pure.arg, "order_number")))

-----------------------------------------------------------------------------
(* C16: the answer to the status update *)

\* the answer carries "ok" under the field name
CarriesOk(data, key) == data.t = "object" /\ Get(data, key) = OkText

\* C16 as stated: the status update succeeds when the answer carries "ok" under
\* either field name, result or status, and fails otherwise.
C16_OkUnderEitherName ==
    (pure.op = "updatePrintlogicOrderStatus" /\ pure.done) =>
        ((pure.out /= PlUpdateFailed)
            <=> (CarriesOk(pure.arg, "result") \/ CarriesOk(pure.arg, "status")))

-----------------------------------------------------------------------------
(* C17: the token record after a refresh *)

\* the field names of a record
FieldsOf(o) == {o.p[i][1] : i \in 1..Len(o.p)}

\* the record new is the record prev overridden by the answer data, with the
\* expiry set to the lifetime after now
MergedRecord(new, prev, data, now) ==
    /\ new.t = "object"
    /\ FieldsOf(new) = FieldsOf(prev) \cup FieldsOf(data) \cup {"expires_at"}
    /\ \A key \in FieldsOf(data) \ {"expires_at"} : Get(new, key) = Get(data, key)
    /\ \A key \in FieldsOf(prev) \ (FieldsOf(data) \cup {"expires_at"}) :
          Get(new, key) = Get(prev, key)
    /\ Get(new, "expires_at")
         = NumV(FromInt(now + (IF HasKey(data, "expires_in")
                               THEN ToInt(Get(data, "expires_in").n)
                               ELSE DefaultLifetime)))

\* the step of slot r is the success of its refresh call
RefreshSucceeds(r) == req[r].pc = "refresh" /\ req'[r].pc = "tenants"

\* the step of slot r is a call of ensureXeroReady that sends its refresh call
RefreshSent(r) == req[r].pc = "idle" /\ req'[r].pc = "refresh"

\* C17: when a refresh succeeds, the new token record has every field of the
\* record the call started from, overridden by every field of the vendor's
\* answer, and expires the declared lifetime (1800 seconds when none is
\* declared) after the current time; the client holds this record and the
\* token file contains it; and every later call of ensureXeroReady sends the
\* refresh credential of the latest answer.
C17_RefreshMergesAndPersists ==
    [][\A r \in Reqs :
          /\ RefreshSucceeds(r) =>
                /\ \E lifetime \in Lifetimes :
                      MergedRecord(memToken', req[r].tokenSet,
                                   TokenResponse(issued', lifetime), nowSec)
                /\ tokenFile' = [t |-> "json", v |-> memToken']
          /\ (RefreshSent(r) /\ issued > 0) =>
                req'[r].log[Len(req'[r].log)].refresh_token = RefreshCred(issued)]_vars

\* a refresh whose answer declared no lifetime has succeeded for the token set
\* loaded from the file: the record in memory and in the file keeps the id
\* token, holds the new credentials and expires 1800 seconds later
C17_Witness ==
    /\ req["a"].pc = "tenants"
    /\ issued = 1
    /\ Get(memToken, "id_token") = Str(<<"i", "0">>)
    /\ Get(memToken, "refresh_token") = RefreshCred(1)
    /\ ~HasKey(memToken, "expires_in")
    /\ Get(memToken, "expires_at") = NumV(FromInt(StartSec + DefaultLifetime))
    /\ tokenFile = [t |-> "json", v |-> memToken]

-----------------------------------------------------------------------------
(* C18: a rejected refresh *)

\* the step of slot r is the failure of its refresh call
RefreshRejected(r) == req[r].pc = "refresh" /\ req'[r].pc \notin {"refresh", "tenants"}

\* C18: when the refresh call of ensureXeroReady is rejected or times out, the
\* request ends with the RefreshFailed error, the tenant list is not asked
\* for, and the token file, the token set the client holds and the selected
\* tenant id are what they were when the refresh call was answered.
C18_RejectedRefreshChangesNothing ==
    [][\A r \in Reqs :
          RefreshRejected(r) =>
              /\ req'[r].pc = "done"
              /\ req'[r].ensure = "RefreshFailed"
              /\ req'[r].result = RouteError(RefreshFailed)
              /\ \A i \in 1..Len(req'[r].log) : req'[r].log[i].op /= "updateTenants"
              /\ tokenFile' = tokenFile
              /\ memToken' = memToken
              /\ tenantId' = tenantId]_vars

\* a request has ended with RefreshFailed while the token file and the client
\* still hold the token set the refresh was sent with, and the tenant of the
\* environment is still selected
C18_Witness ==
    /\ req["a"].pc = "done"
    /\ req["a"].ensure = "RefreshFailed"
    /\ tokenFile = [t |-> "json", v |-> req["a"].tokenSet]
    /\ memToken = req["a"].tokenSet
    /\ tenantId = T1

-----------------------------------------------------------------------------
(* C19: no tenant after a successful refresh *)

\* the step of slot r is the answer to updateTenants that leaves the call
\* without a tenant
NoTenantAnswered(r) == req[r].pc = "tenants" /\ req'[r].ensure = "NoTenant"

\* C19: when the refresh has succeeded and the tenant list comes back empty,
\* the request ends with the NoTenant error and the selected tenant id is left
\* as it was; the refresh is not undone: the client and the token file go on
\* holding the refreshed token set, whose refresh credential is the latest one
\* issued, which is what a later call of ensureXeroReady starts from.
C19_NoTenantKeepsRefresh ==
    /\ [][\A r \in Reqs :
             NoTenantAnswered(r) =>
                 /\ req'[r].pc = "done"
                 /\ req'[r].result = RouteError(NoTenant)
                 /\ \E i \in 1..Len(req[r].log) : req[r].log[i].op = "saveToken"
                 /\ tenantId' = tenantId
                 /\ memToken' = memToken
                 /\ tokenFile' = tokenFile]_vars
    /\ [](\A r \in Reqs :
             (req[r].pc = "done" /\ req[r].ensure = "NoTenant") =>
                 /\ issued > 0
                 /\ Get(memToken, "refresh_token") = RefreshCred(issued)
                 /\ tokenFile = [t |-> "json", v |-> memToken])

\* a request has ended with NoTenant after its refresh: the tenant of the
\* environment is still selected, and the client and the token file hold the
\* token set with the refreshed credential
C19_Witness ==
    /\ req["a"].pc = "done"
    /\ req["a"].ensure = "NoTenant"
    /\ tenantId = T1
    /\ issued = 1
    /\ Get(memToken, "refresh_token") = RefreshCred(1)
    /\ memToken = req["a"].tokenSet
    /\ tokenFile = [t |-> "json", v |-> memToken]

-----------------------------------------------------------------------------
(* C20: two calls of ensureXeroReady at a time, under RaceSpec *)

\* the call of ensureXeroReady in slot r has returned a tenant id or thrown
\* one of its four errors
EnsureEnded(q) == q.ensure \in {"ok"} \cup DOMAIN EnsureMessage

\* C20: of two invoice requests in flight together, each sends a refresh call
\* of its own, whatever the other is doing, and each writes the token file
\* itself when its refresh succeeds; a write puts the writer's record in the
\* file, and nothing else changes the file, so the file holds the record of
\* the last write; and each call ends with a tenant id of the vendor's list
\* or with the message of one of its four failures.
C20_NoSingleFlight ==
    /\ [](\A r \in Reqs :
             /\ (req[r].kind = "invoice" /\ req[r].ensure /= "none") =>
                    \/ req[r].ensure = "NotAuthenticated"
                    \/ /\ Count(req[r].log, "refresh") = 1
                       /\ Count(req[r].log, "saveToken")
                            = IF Refreshed(req[r]) THEN 1 ELSE 0
             /\ (req[r].ensure = "ok" => req[r].tid \in {T1, T2})
             /\ (req[r].ensure \in DOMAIN EnsureMessage) =>
                    /\ req[r].pc = "done"
                    /\ req[r].result = RouteError(EnsureMessage[req[r].ensure])
             /\ (req[r].pc \in {"refresh", "tenants"} => req[r].ensure = "running"))
    /\ [][IF \E r \in Reqs : RefreshSucceeds(r)
           THEN \A r \in Reqs :
                   RefreshSucceeds(r) => tokenFile' = [t |-> "json", v |-> req'[r].tokenSet]
           ELSE tokenFile' = tokenFile]_vars

\* both requests sent the stored refresh credential while the other was in
\* flight and both refreshes succeeded: slot b wrote the file first and slot a
\* last, and the file holds slot a's record
C20_Witness ==
    /\ \A r \in Reqs :
          /\ EnsureEnded(req[r])
          /\ \E i \in DOMAIN req[r].log :
                /\ req[r].log[i].op = "refresh"
                /\ req[r].log[i].refresh_token = RefreshCred(0)
          /\ Count(req[r].log, "saveToken") = 1
    /\ Get(req["b"].tokenSet, "refresh_token") = RefreshCred(1)
    /\ Get(req["a"].tokenSet, "refresh_token") = RefreshCred(2)
    /\ tokenFile = [t |-> "json", v |-> req["a"].tokenSet]

-----------------------------------------------------------------------------
(* C21: the template, the category and the tracking label of the context *)

\* the template field when it is not empty, else the customer category field,
\* else the empty text
ResolvedTemplate(payload) ==
    IF Present(Get(payload, "template")) THEN Get(payload, "template")
    ELSE IF Present(Get(Get(payload, "pl_order"), "customer_category"))
    THEN Get(Get(payload, "pl_order"), "customer_category")
    ELSE Str(<<>>)

\* the context is that of the one known brand
BrandContext(context) ==
    /\ Get(context, "brandingThemeId") = EnvBrandEdinburgh
    /\ Get(context, "brandTrackingOption") = EdinburghBannersLabel
    /\ Get(context, "customerCategory") = Edinburgh_Banners

\* C21 as stated: the template resolves to the template field, else the
\* customer category field, else the empty text; the one special value gives
\* the brand's branding id, label and category name, and for every other value
\* the customer category and the tracking label are both the resolved template.
C21_TemplatePassedThrough ==
    (pure.op = "deriveContext" /\ pure.done) =>
        LET tpl == ResolvedTemplate(pure.arg)
        IN  /\ Get(pure.out, "template") = tpl
            /\ IF tpl = Edinburgh_Banners THEN BrandContext(pure.out)
               ELSE /\ Get(pure.out, "customerCategory") = tpl
                    /\ Get(pure.out, "brandTrackingOption") = tpl

\* C21: the template resolves to the template field, else the customer
\* category field, else the empty text; the one special value gives the
\* brand's branding id, label and category name; for every other value the
\* tracking label is the resolved template, or "Default" when that is empty,
\* the customer category is the payload's customer category field when it is
\* not empty, else the resolved template, else "Default", and there is no
\* branding id.
C21_TemplateOrDefault ==
    (pure.op = "deriveContext" /\ pure.done) =>
        LET tpl == ResolvedTemplate(pure.arg)
            category == Get(Get(pure.arg, "pl_order"), "customer_category")
        IN  /\ Get(pure.out, "template") = tpl
            /\ IF tpl = Edinburgh_Banners THEN BrandContext(pure.out)
               ELSE /\ Get(pure.out, "brandTrackingOption")
                         = IF Present(tpl) THEN tpl ELSE DefaultLabel
                    /\ Get(pure.out, "customerCategory")
                         = IF Present(category) THEN category
                           ELSE IF Present(tpl) THEN tpl ELSE DefaultLabel
                    /\ Get(pure.out, "brandingThemeId") = Undefined

\* the context was derived from a payload with neither template nor customer
\* category: the template is empty, the category and the label are "Default"
C21_Witness ==
    /\ pure.op = "deriveContext" /\ pure.done
    /\ ~HasKey(pure.arg, "template")
    /\ ~HasKey(pure.arg, "pl_order")
    /\ Get(pure.out, "template") = Str(<<>>)
    /\ Get(pure.out, "customerCategory") = DefaultLabel
    /\ Get(pure.out, "brandTrackingOption") = DefaultLabel

-----------------------------------------------------------------------------
(* C22: from the reference back to the order number *)

\* an order number made only of digits, as text or as a number
DigitsOnly(v) ==
    /\ v.t \in {"string", "number"}
    /\ ToStr(v) /= <<>>
    /\ \A i \in 1..Len(ToStr(v)) : ToStr(v)[i] \in Digits

\* C22 as stated: whatever the PO text, the order number extracted from the
\* reference composed for a payload is the payload's order number when that is
\* made only of digits, and there is no match when the payload has no order
\* number.
C22_RoundTrip ==
    (pure.op = "extractOrderNumberFromReference" /\ pure.done) =>
        /\ DigitsOnly(Get(pure.arg, "order_number")) =>
              pure.out = Str(ToStr(Get(pure.arg, "order_number")))
        /\ ~HasKey(pure.arg, "order_number") => pure.out = Null

-----------------------------------------------------------------------------
(* C23: the token file and the client's token set, under RaceSpec *)

\* no call of ensureXeroReady is between its entry and its return
NoEnsureInProgress == \A r \in Reqs : req[r].pc \notin {"refresh", "tenants"}

\* C23: whenever no call of ensureXeroReady is in progress and a refresh has
\* succeeded since the process started, the token file holds the record the
\* client holds, with the same access and refresh credential, also after
\* calls whose refreshes overlapped.
C23_FileMatchesMemory ==
    (NoEnsureInProgress /\ issued > 0) =>
        /\ tokenFile.t = "json"
        /\ Get(tokenFile.v, "access_token") = Get(memToken, "access_token")
        /\ Get(tokenFile.v, "refresh_token") = Get(memToken, "refresh_token")
        /\ tokenFile.v = memToken

\* two calls whose refreshes overlapped (both sent the stored credential) have
\* both returned a tenant; the client and the file hold the record of the
\* second answer
C23_Witness ==
    /\ \A r \in Reqs :
          /\ req[r].pc = "done"
          /\ req[r].ensure = "ok"
          /\ \E i \in DOMAIN req[r].log :
                /\ req[r].log[i].op = "refresh"
                /\ req[r].log[i].refresh_token = RefreshCred(0)
    /\ issued = 2
    /\ Get(memToken, "access_token") = AccessCred(2)
    /\ tokenFile = [t |-> "json", v |-> memToken]

=============================================================================
